---- MODULE Spec2Model ----
(***************************************************************************)
(* Model of the BodyCart backend: the two FastAPI handlers of main.py, the *)
(* agents they fan out to, and the shared LLM layer of llm.py (semaphore   *)
(* of 4 permits and the process-wide response cache).                      *)
(*                                                                         *)
(* The program runs on one asyncio event loop.  A step of the model is one *)
(* uninterrupted section of a coroutine: from the point where it is        *)
(* resumed to its next suspension point.  External calls (the Anthropic    *)
(* API, Tavily searches run through asyncio.to_thread) return in any order *)
(* and with any outcome.  The tasks created by one asyncio.gather start in *)
(* declaration order (the loop's ready queue is FIFO, variable runq), and  *)
(* before the loop polls for the next external event.                      *)
(*                                                                         *)
(* Strings that the code only copies are short names; strings that the     *)
(* code parses or searches are sequences of one-character strings.         *)
(***************************************************************************)
EXTENDS Integers, Sequences, FiniteSets, TLC

(***************************************************************************)
(* Bounds of the model                                                     *)
(***************************************************************************)
NumReqs == 2            \* requests the server receives
MaxGeneric == 1         \* of them, requests to /analyze
MaxHits == 5            \* results one price search returns
PriceStep == 10         \* distance of two listing prices the rule agents are tried on
MaxPriceSteps == 120    \* the highest such price, in steps

(***************************************************************************)
(* Program constants                                                       *)
(***************************************************************************)
SemaphorePermits == 4   \* llm.py:14  asyncio.Semaphore(4)
MaxPriceResults == 5    \* price_comparison_agent.py:328  results_to_process[:5]
MinReviewsForSummary == 3 \* reviews_agent.py:328

Reqs == 1..NumReqs

Max(a, b) == IF a >= b THEN a ELSE b
Min(a, b) == IF a <= b THEN a ELSE b

RECURSIVE Concat(_)
\* list.extend over a sequence of lists
Concat(ss) == IF ss = <<>> THEN <<>> ELSE Head(ss) \o Concat(Tail(ss))

RECURSIVE SumSeq(_)
SumSeq(s) == IF s = <<>> THEN 0 ELSE Head(s) + SumSeq(Tail(s))

\* Flag(type=t, msg=...): a message is the name of its template, followed by
\* the text the template quotes
Flag(t, m) == [type |-> t, msg |-> <<m>>]
FlagOf(t, m, text) == [type |-> t, msg |-> <<m, text>>]

(***************************************************************************)
(* schemas.py                                                              *)
(***************************************************************************)
RiskLevel == {"safe", "suspicious", "dangerous"}

VARIABLES
    tavilyKey,  \* os.getenv("TAVILY_API_KEY") is set
    req,        \* req[r]: the request handler r is processing, or NoReq
    pc,         \* pc[<<r, task>>]: where the task is
    runq,       \* the loop's ready queue: tasks created by gather, not yet started
    loc,        \* loc[<<r, task>>]: what the task holds across a suspension
    out,        \* out[<<r, agent>>]: the dict the agent returned
    settled,    \* settled[r]: the agents of r in the order they returned
    hloc,       \* hloc[r]: the handler's locals after phase 1
    resp,       \* resp[r]: what the handler returned
    sem,        \* _api_semaphore._value
    waiters,    \* _api_semaphore._waiters
    cache       \* _response_cache

vars == <<tavilyKey, req, pc, runq, loc, out, settled, hloc, resp, sem, waiters, cache>>

(***************************************************************************)
(* llm.py: the provider's answers, the cache and the semaphore             *)
(***************************************************************************)
None == [tag |-> "none"]

\* What client.messages.create gives back: an exception, or a text.  A text
\* is the JSON of a value of some shape, possibly inside a markdown fence or
\* followed by trailing text; shape "garbage" is a text that is not JSON.
ApiError == [status |-> "error"]
ApiText(wrap, shape, val) ==
    [status |-> "ok", text |-> [wrap |-> wrap, shape |-> shape, val |-> val]]
EmptyText == [wrap |-> "plain", shape |-> "empty", val |-> None]

\* _get_cache_key: f"{model}|{msg_str}|{temperature}|{max_tokens}"
CacheKey(messages, model, temperature, max_tokens) ==
    <<model, messages, temperature, max_tokens>>

\* the cache key of call_structured_llm: ... + f"|{response_model.__name__}"
StructuredKey(messages, shape, model, temperature, max_tokens) ==
    CacheKey(messages, model, temperature, max_tokens) \o <<shape>>

\* the stripping of ```json fences and of text after the closing brace
StripJson(text) == [text EXCEPT !.wrap = "plain"]

\* the field constraints (ge=0, le=100) of the pydantic result shapes
FieldsValid(shape, val) ==
    CASE shape = "SupplierConfidenceResult" ->
            val.confidence_score >= 0 /\ val.confidence_score <= 100
      [] shape = "ImageAnalysisResult" -> val.confidence >= 0 /\ val.confidence <= 100
      [] shape = "ExtractedPrice" -> val.confidence >= 0 /\ val.confidence <= 100
      [] OTHER -> TRUE

\* response_model.model_validate_json(json_str): the value, or None for the
\* exception the callers catch
ValidateJson(shape, text) ==
    IF text.wrap = "plain" /\ text.shape = shape /\ FieldsValid(shape, text.val)
    THEN text.val ELSE None

\* call_structured_llm, from the provider's answer on: the value returned
StructuredResult(shape, answer) ==
    IF answer.status = "error" THEN None
    ELSE ValidateJson(shape, StripJson(answer.text))

CachePut(key, text) ==
    [k \in DOMAIN cache \cup {key} |-> IF k = key THEN text ELSE cache[k]]

\* a cache that keeps the entry of the call that completed first
StructuredCacheFirst(key, shape, answer) ==
    IF StructuredResult(shape, answer).tag = "none" \/ key \in DOMAIN cache THEN cache
    ELSE CachePut(key, StripJson(answer.text))

\* call_structured_llm, from the provider's answer on: the cache afterwards
StructuredCache(key, shape, answer) ==
    IF StructuredResult(shape, answer).tag = "none" THEN cache
    ELSE CachePut(key, StripJson(answer.text))

\* a cache that answers a hit with null
StructuredHitNull(key, shape) == None

\* call_structured_llm on a cache hit (the entry fails to validate: deleted)
StructuredHit(key, shape) == ValidateJson(shape, cache[key])

\* call_llm, from the provider's answer on
TextResult(answer) == IF answer.status = "error" THEN EmptyText ELSE answer.text
TextCache(key, answer) ==
    IF answer.status = "error" THEN cache ELSE CachePut(key, answer.text)

\* no limit is applied
CanAcquireAlways == TRUE

\* asyncio.Semaphore.acquire returns at once when a permit is free and nobody
\* is queued; otherwise the caller queues
CanAcquire == sem > 0 /\ waiters = <<>>

\* `async with _api_semaphore:` entered by task t
EnterSemaphore(t) ==
    /\ sem' = IF CanAcquire THEN sem - 1 ELSE sem
    /\ waiters' = IF CanAcquire THEN waiters ELSE Append(waiters, t)
PcEnter == IF CanAcquire THEN "inflight" ELSE "waitsem"

\* `async with _api_semaphore:` left: release hands the permit to the first
\* waiter, which goes on to call the provider
LeaveSemaphore ==
    /\ sem' = IF waiters = <<>> THEN sem + 1 ELSE sem
    /\ waiters' = IF waiters = <<>> THEN <<>> ELSE Tail(waiters)
Woken(pcf) == IF waiters = <<>> THEN pcf ELSE [pcf EXCEPT ![Head(waiters)] = "inflight"]

(***************************************************************************)
(* agents/ecommerce_guard.py                                               *)
(***************************************************************************)
\* FullSecurityAnalysis, flattened: visual.*, html.*, price.*
GuardAnalysis(ph, pb, ifr, cs, lo) ==
    [tag |-> "ok", phishing_detected |-> ph, purchase_button_present |-> pb,
     iframe_risk_detected |-> ifr, csrf_risk_detected |-> cs,
     suspiciously_low_price |-> lo]

\* ecommerce_guard_agent, "Process Visual Results": S1 and S4, or the warning
\* when there is no visual result
VisualFlags(full) ==
    IF full.tag = "ok"
    THEN << IF full.phishing_detected THEN Flag("critical", "phishing")
            ELSE Flag("info", "no_phishing"),
            IF full.purchase_button_present THEN Flag("info", "purchase_button")
            ELSE Flag("warning", "no_purchase_button") >>
    ELSE << Flag("warning", "no_visual_analysis") >>

\* the severity does not look at the purchase button
SeverityWarning(purchase_active) == "warning"

\* severity = "critical" if purchase_active else "warning"
Severity(purchase_active) == IF purchase_active THEN "critical" ELSE "warning"

\* impact = 20 if purchase_active else 10
RiskImpact(purchase_active) == IF purchase_active THEN 20 ELSE 10

\* the impact is returned as it was summed
GuardCapNone(score_impact) == score_impact

\* "score_impact": min(100, score_impact)
GuardCap(score_impact) == Min(100, score_impact)

\* ecommerce_guard_agent after the combined check: full is the analysis, or
\* None when the call failed or returned None (both end in the except branch)
GuardOutcome(full) ==
    LET has == full.tag = "ok"
        purchase_active == has /\ full.purchase_button_present
        visualImpact == IF has /\ full.phishing_detected THEN 100 ELSE 0
        iframeHit == has /\ full.iframe_risk_detected
        iframe ==
            IF iframeHit THEN << Flag(Severity(purchase_active), "iframe_risk") >>
            ELSE << Flag("info", "iframes_safe") >>
        iframeImpact == IF iframeHit THEN RiskImpact(purchase_active) ELSE 0
        csrfHit == has /\ full.csrf_risk_detected
        csrf ==
            IF csrfHit THEN << Flag(Severity(purchase_active), "csrf_risk") >>
            ELSE << Flag("info", "forms_safe") >>
        csrfImpact == IF csrfHit THEN RiskImpact(purchase_active) ELSE 0
        price ==
            IF has /\ full.suspiciously_low_price THEN << Flag("critical", "low_price") >>
            ELSE IF has THEN << Flag("info", "price_analysis") >>
            ELSE << >>
        priceImpact == IF has /\ full.suspiciously_low_price THEN 40 ELSE 0
        score_impact == visualImpact + iframeImpact + csrfImpact + priceImpact
    IN  [flags |-> VisualFlags(full) \o iframe \o csrf \o price,
         details |-> [analysis |-> full],
         score_impact |-> GuardCap(score_impact)]

\* check_full_security: the one structured call of the guard
GuardKey(request) ==
    StructuredKey(<<"guard", request.page>>, "FullSecurityAnalysis",
                  "claude-sonnet-4-5-20250929", 0, 1024)

(***************************************************************************)
(* main.py: the aggregation of the generic profile                         *)
(***************************************************************************)
\* resp.get("flags", []) and resp.get("score_impact", 0)
GetFlags(res) == IF "flags" \in DOMAIN res THEN res.flags ELSE <<>>
GetImpact(res) == IF "score_impact" \in DOMAIN res THEN res.score_impact ELSE 0

\* _collect_flags
CollectFlags(responses) == Concat([i \in DOMAIN responses |-> GetFlags(responses[i])])

\* the thresholds taken as strict
AssessRiskStrict(score) ==
    IF score > 80 THEN <<"safe", "todo_limpio">>
    ELSE IF score > 50 THEN <<"suspicious", "huele_a_humo">>
    ELSE <<"dangerous", "fuego">>

\* _assess_risk: the risk level and the default verdict title
AssessRisk(score) ==
    IF score >= 80 THEN <<"safe", "todo_limpio">>
    ELSE IF score >= 50 THEN <<"suspicious", "huele_a_humo">>
    ELSE <<"dangerous", "fuego">>

\* only the upper bound is applied
ClampAbove(x) == Min(100, x)

\* max(0, min(100, x))
Clamp(x) == Max(0, Min(100, x))

\* AnalysisResult(...): pydantic validates the fields; a risk_level outside
\* the RiskLevel enum raises ValidationError, which FastAPI answers with 500
AnalysisResult(score, risk_level, verdict_title, flags, score_breakdown) ==
    IF risk_level \in RiskLevel
    THEN [status |-> "ok", score |-> score, risk_level |-> risk_level,
          verdict_title |-> verdict_title, flags |-> flags,
          score_breakdown |-> score_breakdown]
    ELSE [status |-> "error"]

NoBreakdown == [tag |-> "none"]

\* the reviews agent's impact is left out of the score
AnalyzePageGuardOnly(ai_res, reviews_res, price_res) ==
    LET final_score == Clamp(100 - GetImpact(ai_res))
        risk == AssessRisk(final_score)
    IN  AnalysisResult(final_score, risk[1], risk[2],
                       CollectFlags(<<ai_res, reviews_res, price_res>>), NoBreakdown)

\* analyze_page after the gather
AnalyzePageResult(ai_res, reviews_res, price_res) ==
    LET final_score == Clamp(100 - GetImpact(ai_res) - GetImpact(reviews_res))
        risk == AssessRisk(final_score)
    IN  AnalysisResult(final_score, risk[1], risk[2],
                       CollectFlags(<<ai_res, reviews_res, price_res>>), NoBreakdown)

(***************************************************************************)
(* agents/reviews_agent.py                                                 *)
(*                                                                         *)
(* A search result is described by what the agent reads from it: its url   *)
(* (scheme, site, path, and whether it is written with capital letters),   *)
(* whether its content is longer than 50 characters, whether its text      *)
(* names the domain under another top-level domain, whether it names the   *)
(* analysed domain, and the star rating its content states (in tenths).    *)
(***************************************************************************)
Url(scheme, site, path, caps) ==
    [scheme |-> scheme, site |-> site, path |-> path, caps |-> caps]

\* str.lower() of a url
LowerUrl(u) == [u EXCEPT !.caps = FALSE]

SearchResult(url, long, wrong_tld, names_domain, rating) ==
    [url |-> url, long |-> long, wrong_tld |-> wrong_tld,
     names_domain |-> names_domain, rating |-> rating]
NoRating == -1

Review(source, url) == [source |-> source, url |-> url]

\* STEP 1: the reviews kept from the Google search
GoogleSource(u) ==
    IF u.site = "trustpilot.com" THEN "Trustpilot"
    ELSE IF u.site = "google.com/maps" THEN "Google Maps" ELSE "Google"

GoogleKeeps(res) ==
    /\ ~res.wrong_tld
    /\ res.url.site \notin {"support.google.com", "help.google.com"}
    /\ res.long

GoogleReviews(response) ==
    IF response.tag = "none" THEN <<>>
    ELSE LET kept == SelectSeq(response.results, GoogleKeeps)
         IN  [i \in DOMAIN kept |-> Review(GoogleSource(kept[i].url), kept[i].url)]

\* STEP 2: the reviews kept from the Trustpilot search
TrustpilotMatches(res) ==
    /\ res.url.site = "trustpilot.com"
    /\ ~res.wrong_tld
    /\ res.names_domain

TrustpilotKeeps(res) == TrustpilotMatches(res) /\ res.long

TrustpilotReviews(response) ==
    IF response.tag = "none" THEN <<>>
    ELSE LET kept == SelectSeq(response.results, TrustpilotKeeps)
         IN  [i \in DOMAIN kept |-> Review("Trustpilot", kept[i].url)]

RatedMatch(res) == TrustpilotMatches(res) /\ res.rating # NoRating

\* trustpilot_rating: the first rating found in a matching result
TrustpilotRating(response) ==
    IF response.tag = "none" THEN NoRating
    ELSE LET rated == SelectSeq(response.results, RatedMatch)
         IN  IF rated = <<>> THEN NoRating ELSE rated[1].rating

\* STEP 3: the reviews kept from the general search
GeneralSource(u) ==
    IF u.site \in {"google.com", "google.com/maps"} THEN "Google"
    ELSE IF u.site = "facebook.com" THEN "Facebook"
    ELSE IF u.site = "yelp.com" THEN "Yelp"
    ELSE IF u.site = "reddit.com" THEN "Reddit" ELSE "Web"

GeneralKeeps(res) ==
    /\ res.url.site # "trustpilot.com"
    /\ ~res.wrong_tld
    /\ res.long

GeneralReviews(response) ==
    IF response.tag = "none" THEN <<>>
    ELSE LET kept == SelectSeq(response.results, GeneralKeeps)
         IN  [i \in DOMAIN kept |-> Review(GeneralSource(kept[i].url), kept[i].url)]

RECURSIVE UniqueReviews(_, _)
\* the seen_urls loop: the first review of every lower-cased url
UniqueReviews(reviews, seen_urls) ==
    IF reviews = <<>> THEN <<>>
    ELSE LET url == LowerUrl(Head(reviews).url)
         IN  IF url \in seen_urls THEN UniqueReviews(Tail(reviews), seen_urls)
             ELSE <<Head(reviews)>> \o UniqueReviews(Tail(reviews), seen_urls \cup {url})

\* STEP 4: Trustpilot first, then Google, then the general search
AllReviews(google, tp, general) ==
    UniqueReviews(TrustpilotReviews(tp) \o GoogleReviews(google) \o GeneralReviews(general), {})

\* the agent strips a markdown fence from the summary, nothing else
StripFence(text) == IF text.wrap = "fenced" THEN [text EXCEPT !.wrap = "plain"] ELSE text

DefaultSummary == [sentiment |-> 50, numeric |-> TRUE, trust_assessment |-> "neutral"]

\* STEP 5, after call_llm: an empty answer and a JSONDecodeError keep the defaults
ParseSummary(text) ==
    LET json == StripFence(text)
    IN  IF json.wrap = "plain" /\ json.shape = "summary" THEN json.val ELSE DefaultSummary

\* the outer `except Exception` of reviews_agent
ReviewsFallback ==
    [flags |-> << Flag("info", "reviews_failed") >>,
     details |-> [reviews_checked |-> FALSE, reviews |-> <<>>, sentiment_score |-> 50],
     score_impact |-> 0]

\* the return when TAVILY_API_KEY is not set
ReviewsSkipped ==
    [flags |-> << Flag("info", "reviews_skipped") >>,
     details |-> [reviews_checked |-> FALSE, reviews |-> <<>>, sentiment_score |-> 50],
     score_impact |-> 0]

\* STEP 6: flags and score impact.  A sentiment that is not a number makes
\* the comparison raise TypeError, which the outer handler catches.
ReviewsOutcome(all_reviews, trustpilot_rating, summary) ==
    IF ~summary.numeric THEN ReviewsFallback
    ELSE
    LET sentiment ==
            IF summary.sentiment >= 70 THEN << Flag("info", "reputation_positive") >>
            ELSE IF summary.sentiment <= 30 THEN << Flag("warning", "reputation_negative") >>
            ELSE << >>
        impact ==
            IF summary.sentiment >= 70 THEN -5
            ELSE IF summary.sentiment <= 30 THEN 10 ELSE 0
        rating ==
            IF trustpilot_rating = NoRating THEN << >>
            ELSE IF trustpilot_rating >= 40 THEN << Flag("info", "trustpilot_good") >>
            ELSE IF trustpilot_rating < 25 THEN << Flag("warning", "trustpilot_low") >>
            ELSE << >>
        trust ==
            IF summary.trust_assessment = "suspicious" THEN << Flag("warning", "reviews_caution") >>
            ELSE IF summary.trust_assessment = "trustworthy" THEN << Flag("info", "reviews_trust") >>
            ELSE << >>
        found ==
            IF Len(all_reviews) = 0 THEN << Flag("warning", "no_reviews") >>
            ELSE << Flag("info", "reviews_found") >>
    IN  [flags |-> sentiment \o rating \o trust \o found,
         details |-> [reviews_checked |-> TRUE, reviews |-> all_reviews,
                      sentiment_score |-> summary.sentiment],
         score_impact |-> Max(0, impact)]

\* the call_llm of STEP 5
SummaryKey(request, all_reviews) ==
    CacheKey(<<"summary", request.page, all_reviews>>, "claude-3-5-haiku-20241022", 0, 1024)

(***************************************************************************)
(* agents/price_comparison_agent.py                                        *)
(*                                                                         *)
(* A domain is a sequence of characters (the agent tests containment).  A  *)
(* search result is its domain, whether its content holds a price-like     *)
(* pattern, the amounts the fallback regex finds in its content, and the   *)
(* name of its content (which the extraction prompt quotes).               *)
(***************************************************************************)
\* `a in b` on strings
IsSubstring(a, b) ==
    \E i \in 0..(Len(b) - Len(a)) : SubSeq(b, i + 1, i + Len(a)) = a

PriceHit(domain, priced, amounts, content) ==
    [domain |-> domain, priced |-> priced, amounts |-> amounts, content |-> content]

\* a test of the current site that knows the very domain only
IsCurrentSiteExact(current_domain, domain) == current_domain = domain

\* `current_domain in domain or domain in current_domain`
IsCurrentSite(current_domain, domain) ==
    IsSubstring(current_domain, domain) \/ IsSubstring(domain, current_domain)

RECURSIVE ResultsToProcess(_, _, _)
\* the loop over response["results"]: skip the current site, skip a domain
\* already taken, keep a result with price-like content
ResultsToProcess(results, current_domain, seen_domains) ==
    IF results = <<>> THEN <<>>
    ELSE LET res == Head(results)
             self == IsCurrentSite(current_domain, res.domain)
         IN  IF self \/ res.domain \in seen_domains \/ ~res.priced
             THEN ResultsToProcess(Tail(results), current_domain, seen_domains)
             ELSE <<res>> \o ResultsToProcess(Tail(results), current_domain,
                                             seen_domains \cup {res.domain})

\* results_to_process[:5]
FirstResults(results) == SubSeq(results, 1, Min(Len(results), MaxPriceResults))

RECURSIVE MinOf(_)
MinOf(s) == IF Len(s) = 1 THEN s[1] ELSE Min(s[1], MinOf(Tail(s)))

AtLeast50000(p) == p >= 50000

\* extract_price_regex_fallback: the smallest amount of at least 50000, or 0
\* for None
RegexFallback(amounts) ==
    LET reasonable == SelectSeq(amounts, AtLeast50000)
    IN  IF reasonable = <<>> THEN 0 ELSE MinOf(reasonable)

\* extract_price_with_llm after the call: the price, or 0 for None
LlmPrice(result) ==
    IF result.tag = "ok" /\ result.current_price # 0 /\ result.confidence >= 50
         /\ ~result.is_installment
    THEN result.current_price ELSE 0

RECURSIVE Thousands(_)
\* f"${price:,.0f}".replace(",", "."): the groups of three digits, the
\* leading group first
Thousands(n) == IF n < 1000 THEN <<n>> ELSE Thousands(n \div 1000) \o <<n % 1000>>

RECURSIVE ParseGroups(_, _)
\* parse_price: separators dropped, the digits read as one integer
ParseGroups(groups, acc) ==
    IF groups = <<>> THEN acc ELSE ParseGroups(Tail(groups), acc * 1000 + Head(groups))
ParsePriceText(groups) == ParseGroups(groups, 0)

\* process_single_result: the LLM's price first, the regex fallback second;
\* the entry of found_prices, or None
SingleResult(hit, result) ==
    IF LlmPrice(result) # 0
    THEN [tag |-> "ok", store |-> hit.domain, price_text |-> Thousands(LlmPrice(result)),
          price_numeric |-> LlmPrice(result), extraction_method |-> "llm"]
    ELSE IF RegexFallback(hit.amounts) # 0
    THEN [tag |-> "ok", store |-> hit.domain,
          price_text |-> Thousands(RegexFallback(hit.amounts)),
          price_numeric |-> RegexFallback(hit.amounts),
          extraction_method |-> "regex_fallback"]
    ELSE None

IsEntry(x) == x.tag = "ok"
IsPositive(x) == x # 0

\* the returns of price_comparison_agent before the search
PriceSkipped == [flags |-> <<>>, details |-> [checked |-> FALSE, price_verdict |-> "none",
                                              comparisons |-> <<>>], score_impact |-> 0]
\* the outer `except Exception`
PriceFallback == PriceSkipped

\* price_comparison_agent with a verdict that looks at the cheapest store only
PriceOutcomeOnMin(extraction_results, current_price) ==
    LET found_prices == SelectSeq(extraction_results, IsEntry)
        parsed == [i \in DOMAIN found_prices |-> ParsePriceText(found_prices[i].price_text)]
        competitor_prices == SelectSeq(parsed, IsPositive)
        compare == found_prices # <<>> /\ current_price # 0 /\ competitor_prices # <<>>
        verdict ==
            IF ~compare THEN "none"
            ELSE IF current_price * 100 <= MinOf(competitor_prices) * 105 THEN "buen_precio"
            ELSE "precio_alto"
        high == IF verdict = "precio_alto" THEN << Flag("warning", "precio_alto") >> ELSE << >>
        info == IF found_prices # <<>> THEN << Flag("info", "otras_tiendas") >> ELSE << >>
    IN  [flags |-> high \o info,
         details |-> [checked |-> TRUE, price_verdict |-> verdict,
                      comparisons |-> found_prices],
         score_impact |-> 0]

\* price_comparison_agent after the extraction gather; current_price is the
\* price extract_price_from_html finds on the page, 0 for None
PriceOutcome(extraction_results, current_price) ==
    LET found_prices == SelectSeq(extraction_results, IsEntry)
        parsed == [i \in DOMAIN found_prices |-> ParsePriceText(found_prices[i].price_text)]
        competitor_prices == SelectSeq(parsed, IsPositive)
        compare == found_prices # <<>> /\ current_price # 0 /\ competitor_prices # <<>>
        min_price == MinOf(competitor_prices)
        \* current <= min * 1.05  and  current <= avg * 1.1, in integers
        good == current_price * 100 <= min_price * 105
        average == current_price * 10 * Len(competitor_prices)
                        <= SumSeq(competitor_prices) * 11
        verdict ==
            IF ~compare THEN "none"
            ELSE IF good THEN "buen_precio"
            ELSE IF average THEN "precio_promedio" ELSE "precio_alto"
        high == IF verdict = "precio_alto" THEN << Flag("warning", "precio_alto") >> ELSE << >>
        info == IF found_prices # <<>> THEN << Flag("info", "otras_tiendas") >> ELSE << >>
    IN  [flags |-> high \o info,
         details |-> [checked |-> TRUE, price_verdict |-> verdict,
                      comparisons |-> found_prices],
         score_impact |-> 0]

\* the structured call of extract_price_with_llm
ExtractKey(request, hit) ==
    StructuredKey(<<"extract", request.page, hit.content>>, "ExtractedPrice",
                  "claude-3-5-haiku-20241022", 0, 200)

(***************************************************************************)
(* The environment of the generic profile: requests, search results and    *)
(* provider answers                                                        *)
(***************************************************************************)
NoReq == [profile |-> "none"]
NoResp == [status |-> "none"]

ShopCl == <<"s", "h", "o", "p", ".", "c", "l">>
EshopCl == <<"e">> \o ShopCl
OtraCl == <<"o", "t", "r", "a", ".", "c", "l">>

\* AnalysisRequest: the page (url, markup, screenshot), its domain, the length
\* of the product name its title gives, the price its markup shows (0: none)
GenericRequests ==
    { [profile |-> "generic", page |-> "shop/zapatilla", domain |-> ShopCl,
       product_name_len |-> 9, html_price |-> 125000],
      [profile |-> "generic", page |-> "shop/home", domain |-> ShopCl,
       product_name_len |-> 0, html_price |-> 0] }

GuardAnswers ==
    { ApiError,
      ApiText("fenced", "FullSecurityAnalysis", GuardAnalysis(FALSE, TRUE, TRUE, FALSE, FALSE)),
      ApiText("plain", "FullSecurityAnalysis", GuardAnalysis(FALSE, TRUE, FALSE, FALSE, TRUE)),
      ApiText("plain", "FullSecurityAnalysis", GuardAnalysis(TRUE, FALSE, TRUE, FALSE, FALSE)) }

TrustpilotUrl == Url("https", "trustpilot.com", "/review/shop.cl", FALSE)
SearchFailed == None
SearchResponse(results) == [tag |-> "ok", results |-> results]

GoogleSearches ==
    { SearchFailed,
      SearchResponse(<< SearchResult([TrustpilotUrl EXCEPT !.caps = TRUE], TRUE, FALSE, TRUE, NoRating),
                        SearchResult(Url("https", "google.com/maps", "/shop", FALSE), TRUE, FALSE, TRUE, NoRating),
                        SearchResult(Url("https", "reddit.com", "/r/shop", FALSE), TRUE, FALSE, TRUE, NoRating) >>) }
TrustpilotSearches ==
    { SearchFailed,
      SearchResponse(<< SearchResult(TrustpilotUrl, TRUE, FALSE, TRUE, 21) >>) }
GeneralSearches ==
    { SearchFailed,
      SearchResponse(<< SearchResult(Url("http", "reddit.com", "/r/shop", FALSE), TRUE, FALSE, TRUE, NoRating),
                        SearchResult(Url("https", "blog.cl", "/shop", FALSE), FALSE, FALSE, TRUE, NoRating) >>) }

SummaryAnswers ==
    { ApiError,
      ApiText("fenced", "summary", [sentiment |-> 85, numeric |-> TRUE, trust_assessment |-> "trustworthy"]),
      ApiText("plain", "summary", [sentiment |-> 20, numeric |-> TRUE, trust_assessment |-> "suspicious"]) }

\* what the price search ranks for the product, best match first: the shop
\* itself, a competitor, a site whose domain contains the shop's, the same
\* competitor again, a competitor without a readable amount, one more
Ranking ==
    << PriceHit(ShopCl, TRUE, <<125000>>, "self"),
       PriceHit(OtraCl, TRUE, <<140000, 22499>>, "otra"),
       PriceHit(EshopCl, TRUE, <<99000>>, "eshop"),
       PriceHit(OtraCl, TRUE, <<135000>>, "otra2"),
       PriceHit(<<"b", ".", "c", "l">>, TRUE, <<>>, "b"),
       PriceHit(<<"d", ".", "c", "l">>, TRUE, <<60000>>, "d"),
       PriceHit(<<"c", ".", "c", "l">>, FALSE, <<>>, "c") >>

\* client.search of the price agent: an exception, or the first results of
\* the ranking
PriceSearches ==
    {SearchFailed} \cup
    {SearchResponse(SubSeq(Ranking, 1, n)) : n \in {1, Min(MaxHits, Len(Ranking))}}

ExtractedPrice(price, confidence, installment) ==
    [tag |-> "ok", current_price |-> price, confidence |-> confidence,
     is_installment |-> installment]

ExtractAnswers ==
    { ApiError,
      ApiText("plain", "ExtractedPrice", ExtractedPrice(95000, 90, FALSE)) }

(***************************************************************************)
(* marketplace_agents.py                                                   *)
(*                                                                         *)
(* A MarketplaceRequest is described by what the agents read from it.  A   *)
(* text is described by the patterns the agents search in it; an optional  *)
(* number that is absent is NoCount; a rating is in tenths of a star.      *)
(***************************************************************************)
NoCount == -1
\* datetime.now().year
CurrentYear == 2025
\* datetime.now().year, over a new year's eve
Years == CurrentYear..(CurrentYear + 1)

\* MarketplaceSellerInfo: join_year is parse_join_year(join_date), 0 for None;
\* name_digits: the name has four digits in a row; listings_count is the
\* first number in the listings_count string
SellerInfo(join_year, name_digits, response_rate, other_listings_count, listings_count, followers_count, ratings_count, ratings_average, badges, strengths, location) ==
    [tag |-> "ok", join_year |-> join_year, name_digits |-> name_digits,
     response_rate |-> response_rate, other_listings_count |-> other_listings_count,
     listings_count |-> listings_count, followers_count |-> followers_count,
     ratings_count |-> ratings_count, ratings_average |-> ratings_average,
     badges |-> badges, strengths |-> strengths, location |-> location]

\* a price string: missing (None or empty), "free", unparsable, or an amount
Price(kind, amount) == [kind |-> kind, amount |-> amount]
NoPrice == Price("missing", 0)

\* a description: whether it is blank, its length, whether most of it is in
\* capitals, its runs of !?, the vague patterns and the specific details
\* found in it (in the order the agent looks for them)
Description(blank, len, upper, punctuation, vague, specifics) ==
    [blank |-> blank, len |-> len, upper |-> upper, punctuation |-> punctuation,
     vague |-> vague, specifics |-> specifics]
NoDescription == Description(TRUE, 0, FALSE, 0, <<>>, <<>>)

\* title + " " + description, lower-cased: the payment patterns, the
\* contact patterns and the scam phrases that occur in it, and whether it
\* holds an e-mail address
CombinedText(payment, contact, email, scam) ==
    [payment |-> payment, contact |-> contact, email |-> email, scam |-> scam]
NoText == CombinedText({}, {}, FALSE, {})

\* a location string: its letters and whether it is written with capitals
Location(name, caps) == [name |-> name, caps |-> caps]
NoLocation == Location("", FALSE)

\* MarketplaceListingInfo: products are the keys of MARKET_PRICE_RANGES the
\* lower-cased title contains, keyword the first high-value keyword in it
ListingInfo(products, keyword, price, description, text, location, image_count) ==
    [tag |-> "ok", products |-> products, keyword |-> keyword, price |-> price,
     description |-> description, text |-> text, location |-> location,
     image_count |-> image_count]

MarketplaceRequest(id, screenshot, listing, seller, listing_images) ==
    [profile |-> "marketplace", id |-> id, screenshot |-> screenshot,
     listing |-> listing, seller |-> seller, listing_images |-> listing_images]

\* what an agent returns
Result(flags, details, score_impact) ==
    [flags |-> flags, details |-> details, score_impact |-> score_impact]

\* one check of an agent: the flags it appends and what it adds to score_impact
Check(flags, impact) == [flags |-> flags, impact |-> impact]
Nothing == Check(<<>>, 0)

RECURSIVE ChecksFlags(_)
ChecksFlags(checks) ==
    IF checks = <<>> THEN <<>> ELSE Head(checks).flags \o ChecksFlags(Tail(checks))
RECURSIVE ChecksImpact(_)
ChecksImpact(checks) ==
    IF checks = <<>> THEN 0 ELSE Head(checks).impact + ChecksImpact(Tail(checks))

\* parse_price: "free" is 0, a number is itself, anything else is None
ParsePrice(price) ==
    IF price.kind = "free" THEN 0
    ELSE IF price.kind = "amount" THEN price.amount ELSE NoCount

\* the badges loop of seller_trust_agent
BadgeCheck(badge) ==
    CASE badge = "good_rating" -> Check(<< Flag("info", "badge_good_rating") >>, -10)
      [] badge = "responds_quickly" -> Check(<< Flag("info", "badge_responds_quickly") >>, -5)
      [] badge = "top" -> Check(<< Flag("info", "badge_top") >>, -15)
      [] OTHER -> Nothing

\* a floor the credits of a well-rated seller pass
SellerTrustFloorOff == 3 * (-30)

\* score_impact = max(score_impact, -30)
SellerTrustFloor == -30

\* seller_trust_agent
SellerTrust(request, current_year) ==
    LET seller == request.seller
        age == current_year - seller.join_year
        longevity ==
            IF seller.join_year = 0 THEN Check(<<>>, 10)
            ELSE IF age < 1 THEN Check(<< Flag("critical", "account_very_new") >>, 30)
            ELSE IF age < 2 THEN Check(<< Flag("warning", "account_new") >>, 15)
            ELSE IF age < 3 THEN Check(<< Flag("info", "account_moderate") >>, 5)
            ELSE IF age < 5 THEN Check(<< Flag("info", "account_established") >>, 0)
            ELSE IF age < 10 THEN Check(<< Flag("info", "account_veteran") >>, -10)
            ELSE Check(<< Flag("info", "account_senior") >>, -15)
        name ==
            IF seller.name_digits THEN Check(<< Flag("warning", "name_digits") >>, 5) ELSE Nothing
        response ==
            IF seller.response_rate = "fast" THEN Check(<< Flag("info", "responds_fast") >>, 0)
            ELSE Nothing
        other ==
            IF seller.other_listings_count = NoCount THEN Nothing
            ELSE IF seller.other_listings_count = 0
            THEN Check(<< Flag("warning", "only_listing") >>, 5)
            ELSE IF seller.other_listings_count > 50
            THEN Check(<< Flag("info", "active_seller") >>, 0)
            ELSE Nothing
        listings ==
            IF seller.listings_count = NoCount THEN Nothing
            ELSE IF seller.listings_count >= 10
            THEN Check(<< Flag("info", "established_seller") >>, -5)
            ELSE IF seller.listings_count <= 2
            THEN Check(<< Flag("warning", "few_listings") >>, 5)
            ELSE Nothing
        followers ==
            IF seller.followers_count = NoCount THEN Nothing
            ELSE IF seller.followers_count >= 50 THEN Check(<< Flag("info", "followers") >>, -5)
            ELSE IF seller.followers_count >= 10 THEN Check(<< Flag("info", "followers") >>, 0)
            ELSE Nothing
        ratings ==
            IF seller.ratings_count = NoCount THEN Nothing
            ELSE IF seller.ratings_count >= 10 THEN Check(<< Flag("info", "ratings") >>, -10)
            ELSE IF seller.ratings_count >= 5 THEN Check(<< Flag("info", "ratings") >>, -5)
            ELSE IF seller.ratings_count = 0 THEN Check(<< Flag("warning", "no_ratings") >>, 10)
            ELSE Nothing
        average ==
            IF seller.ratings_average = NoCount THEN Nothing
            ELSE IF seller.ratings_average >= 45
            THEN Check(<< Flag("info", "excellent_rating") >>, -10)
            ELSE IF seller.ratings_average >= 40 THEN Check(<< Flag("info", "good_rating") >>, -5)
            ELSE IF seller.ratings_average < 30 THEN Check(<< Flag("critical", "low_rating") >>, 20)
            ELSE Nothing
        badges == [i \in DOMAIN seller.badges |-> BadgeCheck(seller.badges[i])]
        total_positive_reviews == SumSeq(seller.strengths)
        strengths ==
            IF total_positive_reviews >= 20
            THEN Check(<< Flag("info", "positive_reviews") >>, -10)
            ELSE IF total_positive_reviews >= 5
            THEN Check(<< Flag("info", "strengths") >>, -5)
            ELSE Nothing
        checks == <<longevity, name, response, other, listings, followers, ratings, average>>
                    \o badges \o <<strengths>>
    IN  IF seller.tag = "none" THEN Result(<<>>, None, 15)
        ELSE Result(ChecksFlags(checks),
                    [tag |-> "seller",
                     account_age_years |-> IF seller.join_year = 0 THEN NoCount ELSE age],
                    Max(ChecksImpact(checks), SellerTrustFloor))

\* seller_history_agent
SellerHistory(request) ==
    LET seller == request.seller
        listings_count == seller.listings_count
        history ==
            IF listings_count = NoCount THEN Nothing
            ELSE IF listings_count = 0 THEN Check(<< Flag("critical", "first_listing") >>, 25)
            ELSE IF listings_count <= 2 THEN Check(<< Flag("warning", "very_few_listings") >>, 15)
            ELSE IF listings_count <= 5 THEN Check(<< Flag("info", "few_listings") >>, 5)
            ELSE IF listings_count <= 20 THEN Check(<< Flag("info", "moderate_history") >>, 0)
            ELSE IF listings_count <= 50 THEN Check(<< Flag("info", "experienced") >>, -10)
            ELSE Check(<< Flag("info", "power_seller") >>, -15)
        other ==
            IF seller.other_listings_count = 0 /\ listings_count = NoCount
            THEN Check(<< Flag("warning", "only_listing") >>, 10)
            ELSE Nothing
        checks == <<history, other>>
    IN  IF seller.tag = "none" THEN Result(<<>>, None, 0)
        ELSE Result(ChecksFlags(checks), [tag |-> "seller_history"], ChecksImpact(checks))

\* a pricing agent that looks at the response cache
PricingByCache(request) ==
    Result(<<>>, [tag |-> "pricing"], IF cache = <<>> THEN 0 ELSE 10)

\* pricing_agent
Pricing(request) ==
    LET listing == request.listing
        price == ParsePrice(listing.price)
        free == IF price = 0 THEN Check(<< Flag("warning", "free_item") >>, 10) ELSE Nothing
        keyword ==
            IF listing.keyword = "none" THEN Nothing
            ELSE IF price > 0 /\ price < 100
            THEN Check(<< Flag("critical", "price_suspiciously_low") >>, 25)
            ELSE IF price > 0 /\ price < 300
            THEN Check(<< Flag("warning", "price_very_low") >>, 10)
            ELSE Nothing
        checks == <<free, keyword>>
    IN  IF listing.tag = "none" THEN Result(<<>>, None, 0)
        ELSE IF listing.price.kind = "missing" THEN Result(<<>>, None, 0)
        ELSE IF price = NoCount THEN Result(<<>>, [tag |-> "pricing"], 0)
        ELSE Result(ChecksFlags(checks), [tag |-> "pricing"], ChecksImpact(checks))

\* a row of MARKET_PRICE_RANGES: the key, its length, the price range
MarketRow(product, len, min_market, max_market) ==
    [tag |-> "ok", product |-> product, len |-> len,
     min_market |-> min_market, max_market |-> max_market]

MARKET_PRICE_RANGES ==
    << MarketRow("iphone 15 pro max", 17, 900, 1400),
       MarketRow("iphone 15 pro", 13, 800, 1200),
       MarketRow("iphone 15", 9, 600, 1000),
       MarketRow("iphone 14 pro max", 17, 700, 1100),
       MarketRow("iphone 14 pro", 13, 600, 1000),
       MarketRow("iphone 14", 9, 500, 800),
       MarketRow("iphone 13", 9, 400, 700),
       MarketRow("iphone 12", 9, 300, 500),
       MarketRow("iphone 11", 9, 200, 400),
       MarketRow("samsung galaxy s24", 18, 600, 1000),
       MarketRow("samsung galaxy s23", 18, 500, 900),
       MarketRow("samsung galaxy s22", 18, 400, 700),
       MarketRow("macbook pro 16", 14, 1500, 3500),
       MarketRow("macbook pro 14", 14, 1200, 3000),
       MarketRow("macbook pro 13", 14, 800, 2000),
       MarketRow("macbook air m2", 14, 800, 1500),
       MarketRow("macbook air m1", 14, 600, 1200),
       MarketRow("macbook air", 11, 500, 1500),
       MarketRow("imac", 4, 800, 2500),
       MarketRow("ipad pro", 8, 500, 1500),
       MarketRow("ipad air", 8, 400, 900),
       MarketRow("ipad", 4, 250, 600),
       MarketRow("ps5", 3, 350, 600),
       MarketRow("playstation 5", 13, 350, 600),
       MarketRow("xbox series x", 13, 350, 550),
       MarketRow("xbox series s", 13, 200, 350),
       MarketRow("nintendo switch oled", 20, 280, 400),
       MarketRow("nintendo switch", 15, 200, 350),
       MarketRow("steam deck", 10, 350, 700),
       MarketRow("rtx 4090", 8, 1500, 2500),
       MarketRow("rtx 4080", 8, 900, 1500),
       MarketRow("rtx 4070", 8, 500, 800),
       MarketRow("rtx 3080", 8, 400, 800),
       MarketRow("rtx 3070", 8, 300, 600),
       MarketRow("rtx 3060", 8, 200, 400),
       MarketRow("airpods pro", 11, 150, 280),
       MarketRow("airpods max", 11, 350, 600),
       MarketRow("apple watch ultra", 17, 500, 900),
       MarketRow("apple watch series 9", 20, 300, 500),
       MarketRow("apple watch", 11, 150, 500) >>

\* the last key of the table the title contains
FindProductMatchLast(products) ==
    LET found == {i \in DOMAIN MARKET_PRICE_RANGES : MARKET_PRICE_RANGES[i].product \in products}
        last == CHOOSE i \in found : \A j \in found : j <= i
    IN  IF found = {} THEN None ELSE MARKET_PRICE_RANGES[last]

\* find_product_match: the longest key the title contains; sorted() is stable,
\* so among keys of one length the first of the table wins
FindProductMatch(products) ==
    LET found == {i \in DOMAIN MARKET_PRICE_RANGES : MARKET_PRICE_RANGES[i].product \in products}
        first == CHOOSE i \in found : \A j \in found :
                    \/ MARKET_PRICE_RANGES[i].len > MARKET_PRICE_RANGES[j].len
                    \/ MARKET_PRICE_RANGES[i].len = MARKET_PRICE_RANGES[j].len /\ i <= j
    IN  IF found = {} THEN None ELSE MARKET_PRICE_RANGES[first]

\* one branch of the price comparison: its flag and impact, price_tier and
\* price_vs_market
Tier(flags, impact, price_tier, price_vs_market) ==
    [flags |-> flags, impact |-> impact, price_tier |-> price_tier,
     price_vs_market |-> price_vs_market]

\* every price of a known product is taken as fair
KnownPriceFair(price, match) ==
    Tier(<< Flag("info", "price_fair") >>, -5, "fair", "market_rate")

\* price_analysis_agent, the branch of a matched product; the comparisons
\* with 0.3, 0.5, 0.7 and 1.1 times the market price are written in tenths
KnownPrice(price, match) ==
    IF price = 0 THEN Tier(<< Flag("critical", "product_free") >>, 35, "scam", "free")
    ELSE IF price * 10 < match.min_market * 3
    THEN Tier(<< Flag("critical", "price_ridiculously_low") >>, 30, "scam", "extreme_low")
    ELSE IF price * 10 < match.min_market * 5
    THEN Tier(<< Flag("critical", "price_very_suspicious") >>, 20, "very_suspicious", "very_low")
    ELSE IF price * 10 < match.min_market * 7
    THEN Tier(<< Flag("warning", "price_low") >>, 10, "suspicious", "low")
    ELSE IF price * 10 <= match.max_market * 11
    THEN Tier(<< Flag("info", "price_fair") >>, -5, "fair", "market_rate")
    ELSE Tier(<< Flag("info", "price_above_market") >>, 0, "high", "above_market")

\* price_analysis_agent, the branch without a matched product
GenericPrice(price) ==
    IF price = 0 THEN Tier(<< Flag("warning", "free_item_generic") >>, 10, "free", "none")
    ELSE IF price < 10 THEN Tier(<< Flag("info", "price_very_low_generic") >>, 5, "very_low", "none")
    ELSE Tier(<<>>, 0, "unknown", "none")

\* price_analysis_agent
PriceAnalysis(request) ==
    LET listing == request.listing
        price == ParsePrice(listing.price)
        match == FindProductMatch(listing.products)
        tier == IF match.tag = "ok" THEN KnownPrice(price, match) ELSE GenericPrice(price)
    IN  IF listing.tag = "none" THEN Result(<<>>, None, 0)
        ELSE IF listing.price.kind = "missing" THEN Result(<<>>, None, 0)
        ELSE IF price = NoCount THEN Result(<<>>, [tag |-> "price_analysis"], 0)
        ELSE Result(tier.flags,
                    [tag |-> "price_analysis", matched_product |-> match,
                     price_tier |-> tier.price_tier,
                     price_vs_market |-> tier.price_vs_market],
                    tier.impact)

\* ImageAnalysisResult
ImageAnalysisResult(is_stock_photo, is_professional, has_watermark, background_consistent, shows_actual_product, confidence, concerns, positive_signals) ==
    [tag |-> "ok", is_stock_photo |-> is_stock_photo, is_professional |-> is_professional,
     has_watermark |-> has_watermark, background_consistent |-> background_consistent,
     shows_actual_product |-> shows_actual_product, confidence |-> confidence,
     concerns |-> concerns, positive_signals |-> positive_signals]

\* image_analysis_agent, the image count
ImageCount(request) ==
    LET image_count ==
            IF request.listing.tag = "ok" /\ request.listing.image_count # 0
            THEN request.listing.image_count ELSE request.listing_images
    IN  IF image_count = 0 THEN Check(<< Flag("warning", "no_images") >>, 15)
        ELSE IF image_count = 1 THEN Check(<<>>, 5)
        ELSE IF image_count >= 5 THEN Check(<< Flag("info", "multiple_images") >>, -5)
        ELSE Nothing

\* a concern whose type is taken from the model's text
ConcernAsWritten(msg) == Flag(msg, msg)
Concern(msg) == Flag("warning", msg)
Positive(msg) == FlagOf("info", "positive", msg)

\* image_analysis_agent, the vision analysis: result is what
\* call_structured_llm returned
ImageVision(result) ==
    LET stock ==
            IF result.is_stock_photo THEN Check(<< Flag("critical", "stock_photo") >>, 25)
            ELSE Nothing
        watermark ==
            IF result.has_watermark THEN Check(<< Flag("warning", "watermark") >>, 15)
            ELSE Nothing
        professional ==
            IF result.is_professional /\ ~result.shows_actual_product
            THEN Check(<< Flag("warning", "too_professional") >>, 10) ELSE Nothing
        background ==
            IF ~result.background_consistent
            THEN Check(<< Flag("warning", "background_inconsistent") >>, 10) ELSE Nothing
        product ==
            IF ~result.shows_actual_product
            THEN Check(<< Flag("warning", "product_not_shown") >>, 10) ELSE Nothing
        concerns == Check([i \in DOMAIN result.concerns |-> Concern(result.concerns[i])], 0)
        positives ==
            Check([i \in DOMAIN result.positive_signals |-> Positive(result.positive_signals[i])], 0)
        confidence ==
            IF result.confidence >= 80 THEN Check(<< Flag("info", "images_authentic") >>, -5)
            ELSE IF result.confidence < 40
            THEN Check(<< Flag("warning", "low_image_confidence") >>, 10)
            ELSE Nothing
    IN  IF result.tag = "none" THEN <<>>
        ELSE <<stock, watermark, professional, background, product, concerns, positives,
               confidence>>

\* details["ai_analysis"] of image_analysis_agent
AiAnalysis(result) ==
    IF result.tag = "none" THEN None
    ELSE [tag |-> "ok", is_stock_photo |-> result.is_stock_photo,
          is_professional |-> result.is_professional,
          has_watermark |-> result.has_watermark,
          background_consistent |-> result.background_consistent,
          shows_actual_product |-> result.shows_actual_product,
          confidence |-> result.confidence]

\* image_analysis_agent from the image count to its return; result is None
\* when there is no screenshot and when the call failed
ImageOutcome(request, result) ==
    LET checks == <<ImageCount(request)>> \o ImageVision(result)
    IN  Result(ChecksFlags(checks), [ai_analysis |-> AiAnalysis(result)], ChecksImpact(checks))

\* the structured call of image_analysis_agent: the prompt holds the
\* screenshot and nothing else of the request
ImageKey(request) ==
    StructuredKey(<<"image", request.screenshot>>, "ImageAnalysisResult",
                  "claude-3-5-haiku-20241022", 0, 800)

\* the pattern tables of red_flags_agent: <<pattern, message>>
payment_red_flags ==
    << <<"zelle", "zelle">>, <<"venmo", "venmo">>, <<"cashapp", "cashapp">>,
       <<"cash app", "cash app">>, <<"wire transfer", "transferencia bancaria">>,
       <<"transferencia", "transferencia bancaria">>, <<"gift card", "tarjetas de regalo">>,
       <<"tarjeta de regalo", "tarjetas de regalo">>, <<"crypto", "criptomonedas">>,
       <<"bitcoin", "bitcoin">> >>

contact_red_flags ==
    << <<"whatsapp", "whatsapp">>, <<"telegram", "telegram">>, <<"text me", "texto">>,
       <<"call me", "llamada">>, <<"escribeme al", "fuera de facebook">> >>

scam_phrases ==
    << <<"serious buyers only", "serious buyers only">>,
       <<"solo compradores serios", "solo compradores serios">>,
       <<"no lowballers", "frase defensiva">>, <<"price is firm", "no negociable">>,
       <<"send deposit", "deposito por adelantado">>, <<"deposito", "deposito por adelantado">>,
       <<"shipping only", "solo envio">>, <<"solo envio", "solo envio">> >>

\* for pattern, message in table: if pattern in combined_text: ...
RECURSIVE EveryMatch(_, _, _, _)
EveryMatch(table, present, type, impact) ==
    IF table = <<>> THEN <<>>
    ELSE (IF Head(table)[1] \in present THEN << Check(<< Flag(type, Head(table)[2]) >>, impact) >>
          ELSE <<>>) \o EveryMatch(Tail(table), present, type, impact)

\* the loop without its break: every pattern of the table that occurs is flagged
FirstMatchNoBreak(table, present, type, impact) ==
    LET all == EveryMatch(table, present, type, impact)
    IN  Check(ChecksFlags(all), ChecksImpact(all))

\* for pattern, message in table: if pattern in combined_text: ...; break
FirstMatch(table, present, type, impact) ==
    LET all == EveryMatch(table, present, type, impact)
    IN  IF all = <<>> THEN Nothing ELSE Head(all)

\* red_flags_agent
RedFlags(request) ==
    LET listing == request.listing
        text == IF listing.tag = "ok" THEN listing.text ELSE NoText
        payment == FirstMatch(payment_red_flags, text.payment, "critical", 20)
        contact == FirstMatch(contact_red_flags, text.contact, "warning", 10)
        email == IF text.email THEN Check(<< Flag("warning", "email") >>, 5) ELSE Nothing
        scam == EveryMatch(scam_phrases, text.scam, "info", 3)
        location ==
            IF /\ listing.tag = "ok" /\ listing.location.name # ""
               /\ request.seller.tag = "ok" /\ request.seller.location.name # ""
               /\ listing.location.name # request.seller.location.name
            THEN Check(<< Flag("warning", "location_mismatch") >>, 10)
            ELSE Nothing
        checks == <<payment, contact, email>> \o scam \o <<location>>
    IN  Result(ChecksFlags(checks), [tag |-> "red_flags"], ChecksImpact(checks))

\* description_quality_agent
DescriptionQuality(request) ==
    LET listing == request.listing
        description == IF listing.tag = "ok" THEN listing.description ELSE NoDescription
        desc_len == description.len
        length ==
            IF desc_len < 20 THEN Check(<< Flag("warning", "description_very_short") >>, 10)
            ELSE IF desc_len < 50 THEN Check(<<>>, 5)
            ELSE IF desc_len >= 150 THEN Check(<<>>, -5)
            ELSE Nothing
        caps ==
            IF description.upper /\ desc_len > 20
            THEN Check(<< Flag("warning", "description_caps") >>, 5) ELSE Nothing
        punctuation == IF description.punctuation > 3 THEN Check(<<>>, 3) ELSE Nothing
        vague == [i \in DOMAIN description.vague |->
                    Check(<< FlagOf("info", "vague", description.vague[i]) >>, 2)]
        specifics ==
            IF Len(description.specifics) >= 3
            THEN Check(<< Flag("info", "specific_details") >>, -5) ELSE Nothing
        checks == <<length, caps, punctuation>> \o vague \o <<specifics>>
    IN  IF description.blank
        THEN Result(<< Flag("warning", "no_description") >>, [tag |-> "description"], 15)
        ELSE Result(ChecksFlags(checks), [tag |-> "description"], ChecksImpact(checks))

\* SupplierConfidenceResult
SupplierConfidenceResult(confidence_score, risk_level, verdict_title, key_concerns, positive_signals) ==
    [tag |-> "ok", confidence_score |-> confidence_score, risk_level |-> risk_level,
     verdict_title |-> verdict_title, key_concerns |-> key_concerns,
     positive_signals |-> positive_signals]

IsCritical(f) == f.type = "critical"
IsWarning(f) == f.type = "warning"
IsInfo(f) == f.type = "info"

\* _build_flags_summary: the messages by type
FlagsSummary(flags) ==
    LET critical == SelectSeq(flags, IsCritical)
        warnings == SelectSeq(flags, IsWarning)
        info == SelectSeq(flags, IsInfo)
    IN  << [i \in DOMAIN critical |-> critical[i].msg],
           [i \in DOMAIN warnings |-> warnings[i].msg],
           [i \in DOMAIN info |-> info[i].msg] >>

\* the image summary of the prompt
ImageSummary(image_analysis) ==
    IF image_analysis.tag = "none" THEN <<>>
    ELSE << image_analysis.is_stock_photo, image_analysis.has_watermark,
            image_analysis.shows_actual_product, image_analysis.confidence >>

\* _build_seller_summary: "Años en la plataforma", NoCount when the line is
\* left out
YearsOnPlatform(request, current_year) ==
    IF request.seller.tag = "ok" /\ request.seller.join_year # 0
    THEN current_year - request.seller.join_year ELSE NoCount

\* the structured call of supplier_confidence_agent; request.id names the
\* seller and listing texts the prompt quotes
SupplierKey(request, rule_based_flags, image_analysis, years_on_platform) ==
    StructuredKey(<<"supplier", request.id, years_on_platform, FlagsSummary(rule_based_flags),
                    ImageSummary(image_analysis)>>,
                  "SupplierConfidenceResult", "claude-3-5-haiku-20241022", 0, 1500)

FallbackScore == 50

\* supplier_confidence_agent with a fallback that reports nothing
SupplierOutcomeSilent(result) ==
    IF result.tag = "ok"
    THEN [flags |-> <<>>, details |-> [analysis_method |-> "llm"],
          score |-> result.confidence_score, risk_level |-> result.risk_level,
          verdict_title |-> result.verdict_title]
    ELSE [flags |-> <<>>, details |-> [analysis_method |-> "fallback"],
          score |-> FallbackScore, risk_level |-> "suspicious",
          verdict_title |-> "analisis_incompleto"]

\* supplier_confidence_agent after the call
SupplierOutcome(result) ==
    IF result.tag = "ok"
    THEN [flags |-> [i \in DOMAIN result.key_concerns |-> Concern(result.key_concerns[i])]
                    \o [i \in DOMAIN result.positive_signals |->
                            Positive(result.positive_signals[i])],
          details |-> [analysis_method |-> "llm"],
          score |-> result.confidence_score,
          risk_level |-> result.risk_level,
          verdict_title |-> result.verdict_title]
    ELSE [flags |-> << Flag("warning", "ai_incomplete") >>,
          details |-> [analysis_method |-> "fallback"],
          score |-> FallbackScore,
          risk_level |-> "suspicious",
          verdict_title |-> "analisis_incompleto"]

(***************************************************************************)
(* main.py: the aggregation of the marketplace profile                     *)
(***************************************************************************)
\* rule_based_flags, from the results of the phase-1 gather
RuleBasedFlags(results) == Concat([i \in DOMAIN results |-> GetFlags(results[i])])

BaseScore == 100

\* ScoreBreakdown(...), from the results of the phase-1 gather (seller_res,
\* seller_history_res, pricing_res, price_analysis_res, image_res,
\* red_flags_res, description_res)
ScoreBreakdown(results) ==
    [tag |-> "ok",
     base_score |-> BaseScore,
     seller_longevity |-> -GetImpact(results[1]),
     post_history |-> -GetImpact(results[2]),
     description_quality |-> -GetImpact(results[7]),
     image_analysis |-> -GetImpact(results[5]),
     price_analysis |-> -(GetImpact(results[3]) + GetImpact(results[4])),
     red_flags |-> -GetImpact(results[6]),
     response_patterns |-> 0,
     ratings_impact |-> 0]

\* the sum of ScoreBreakdown.total without its clamp
ScoreBreakdownTotalRaw(b) ==
    b.base_score + b.seller_longevity + b.post_history + b.description_quality
    + b.image_analysis + b.price_analysis + b.red_flags + b.response_patterns
    + b.ratings_impact

\* ScoreBreakdown.total
ScoreBreakdownTotal(b) ==
    Clamp(b.base_score + b.seller_longevity + b.post_history + b.description_quality
          + b.image_analysis + b.price_analysis + b.red_flags + b.response_patterns
          + b.ratings_impact)

\* the score is recomputed from the breakdown
MarketplaceResultFromImpacts(ai_res, rule_based_flags, score_breakdown) ==
    LET final_score == ScoreBreakdownTotal(score_breakdown)
        risk_level == IF ai_res.risk_level # "" THEN ai_res.risk_level
                      ELSE AssessRisk(final_score)[1]
    IN  AnalysisResult(final_score, risk_level, ai_res.verdict_title,
                       rule_based_flags \o GetFlags(ai_res), score_breakdown)

\* image_res.get("details", {}).get("ai_analysis", {})
ImageAnalysisDetails(image_res) ==
    IF "details" \in DOMAIN image_res /\ "ai_analysis" \in DOMAIN image_res.details
    THEN image_res.details.ai_analysis ELSE None

\* analyze_marketplace after supplier_confidence_agent returned ai_res
MarketplaceResult(ai_res, rule_based_flags, score_breakdown) ==
    LET final_score == Clamp(ai_res.score)
        risk_level ==
            IF ai_res.risk_level # "" THEN ai_res.risk_level
            ELSE IF final_score >= 80 THEN "safe"
            ELSE IF final_score >= 50 THEN "suspicious"
            ELSE "dangerous"
    IN  AnalysisResult(final_score, risk_level, ai_res.verdict_title,
                       rule_based_flags \o GetFlags(ai_res), score_breakdown)

(***************************************************************************)
(* The environment of the marketplace profile                              *)
(***************************************************************************)
MarketplaceRequests ==
    { \* a new account sells an iPhone 13 for 100, asks for Zelle and WhatsApp
      MarketplaceRequest("iphone", "shot1",
          ListingInfo({"iphone 13"}, "iphone", Price("amount", 100),
                      Description(FALSE, 30, FALSE, 0, <<>>, <<>>),
                      CombinedText({"zelle"}, {"whatsapp"}, FALSE, {"deposito"}),
                      Location("santiago", FALSE), 1),
          SellerInfo(CurrentYear, FALSE, "none", NoCount, 1, NoCount, 0, NoCount, <<>>, <<>>,
                     Location("arica", FALSE)),
          0),
      \* the extension could read neither the listing nor the seller
      MarketplaceRequest("bare", "none", None, None, 0) }

ImageAnswers ==
    { ApiError,
      ApiText("fenced", "ImageAnalysisResult",
              ImageAnalysisResult(TRUE, TRUE, FALSE, TRUE, FALSE, 20, <<"foto de catalogo">>, <<>>)),
      ApiText("plain", "ImageAnalysisResult",
              ImageAnalysisResult(FALSE, FALSE, FALSE, TRUE, TRUE, 90, <<>>, <<"foto en casa">>)) }

SupplierAnswers ==
    { ApiError,
      ApiText("plain", "SupplierConfidenceResult",
              SupplierConfidenceResult(90, "dangerous", "ojo", <<"precio irreal">>, <<>>)),
      ApiText("fenced", "SupplierConfidenceResult",
              SupplierConfidenceResult(35, "", "", <<"cuenta nueva">>, <<>>)),
      ApiText("plain", "SupplierConfidenceResult",
              SupplierConfidenceResult(60, "high", "trucho", <<>>, <<"cuenta antigua">>)) }

(***************************************************************************)
(* Tasks                                                                   *)
(***************************************************************************)
\* the coroutines analyze_page hands to asyncio.gather, in that order
GenericAgents == <<"guard", "reviews", "price_comparison">>
\* the coroutines analyze_marketplace hands to asyncio.gather, in that order
Phase1Agents == <<"seller_trust", "seller_history", "pricing", "price_analysis",
                  "image_analysis", "red_flags", "description_quality">>
HolisticAgent == "supplier_confidence"

Range(s) == {s[i] : i \in DOMAIN s}
AgentNames == Range(GenericAgents) \cup Range(Phase1Agents) \cup {HolisticAgent}

\* the task of agent a of request r; the i-th process_single_result of r
Agent(r, a) == <<r, a, 0>>
Extract(r, i) == <<r, "extract", i>>
Extracts == 1..MaxPriceResults
Tasks == {Agent(r, a) : r \in Reqs, a \in AgentNames}
            \cup {Extract(r, i) : r \in Reqs, i \in Extracts}

Init ==
    /\ tavilyKey \in BOOLEAN
    /\ req = [r \in Reqs |-> NoReq]
    /\ pc = [t \in Tasks |-> "idle"]
    /\ runq = <<>>
    /\ loc = [t \in Tasks |-> None]
    /\ out = [t \in Tasks |-> None]
    /\ settled = [r \in Reqs |-> <<>>]
    /\ hloc = [r \in Reqs |-> None]
    /\ resp = [r \in Reqs |-> NoResp]
    /\ sem = SemaphorePermits
    /\ waiters = <<>>
    /\ cache = <<>>

\* the tasks that hold a permit of _api_semaphore
Holders == {t \in Tasks : pc[t] = "inflight"}

\* the loop polls for I/O (a new request, a provider's answer, a finished
\* search) once the tasks that are ready have run
LoopIdle == runq = <<>>

\* a handler takes the next request
Arrives(r) == LoopIdle /\ req[r] = NoReq /\ (IF r = 1 THEN TRUE ELSE req[r - 1] # NoReq)

\* agent a of request r returns result
Returns(r, a, result) ==
    /\ out' = [out EXCEPT ![Agent(r, a)] = result]
    /\ settled' = [settled EXCEPT ![r] = Append(@, a)]

(***************************************************************************)
(* main.py: POST /analyze                                                  *)
(***************************************************************************)
\* analyze_page up to `await asyncio.gather(...)`
Analyze(r) ==
    /\ Arrives(r)
    /\ Cardinality({q \in Reqs : req[q].profile = "generic"}) < MaxGeneric
    /\ \E request \in GenericRequests : req' = [req EXCEPT ![r] = request]
    /\ runq' = [i \in DOMAIN GenericAgents |-> Agent(r, GenericAgents[i])]
    /\ pc' = [t \in Tasks |-> IF t[1] = r /\ t[2] \in Range(GenericAgents) THEN "ready" ELSE pc[t]]
    /\ UNCHANGED <<tavilyKey, loc, out, settled, hloc, resp, sem, waiters, cache>>

\* ecommerce_guard_agent up to the provider call of check_full_security
StartGuard(r) ==
    LET t == Agent(r, "guard")
        key == GuardKey(req[r])
    IN  /\ runq # <<>> /\ Head(runq) = t
        /\ runq' = Tail(runq)
        /\ IF key \in DOMAIN cache
           THEN /\ Returns(r, "guard", GuardOutcome(StructuredHit(key, "FullSecurityAnalysis")))
                /\ pc' = [pc EXCEPT ![t] = "done"]
                /\ UNCHANGED <<sem, waiters>>
           ELSE /\ EnterSemaphore(t)
                /\ pc' = [pc EXCEPT ![t] = PcEnter]
                /\ UNCHANGED <<out, settled>>
        /\ UNCHANGED <<tavilyKey, req, loc, hloc, resp, cache>>

\* the provider answers check_full_security; the guard runs to its return
GuardReturns(r) ==
    LET t == Agent(r, "guard")
        key == GuardKey(req[r])
    IN  /\ pc[t] = "inflight" /\ LoopIdle
        /\ \E answer \in GuardAnswers :
              /\ cache' = StructuredCache(key, "FullSecurityAnalysis", answer)
              /\ Returns(r, "guard", GuardOutcome(StructuredResult("FullSecurityAnalysis", answer)))
        /\ LeaveSemaphore
        /\ pc' = Woken([pc EXCEPT ![t] = "done"])
        /\ UNCHANGED <<tavilyKey, req, runq, loc, hloc, resp>>

(***************************************************************************)
(* agents/reviews_agent.py: the steps of the coroutine                     *)
(***************************************************************************)
\* reviews_agent up to the gather of the three searches
StartReviews(r) ==
    LET t == Agent(r, "reviews")
    IN  /\ runq # <<>> /\ Head(runq) = t
        /\ runq' = Tail(runq)
        /\ IF tavilyKey
           THEN /\ pc' = [pc EXCEPT ![t] = "searching"]
                /\ UNCHANGED <<out, settled>>
           ELSE /\ pc' = [pc EXCEPT ![t] = "done"]
                /\ Returns(r, "reviews", ReviewsSkipped)
        /\ UNCHANGED <<tavilyKey, req, loc, hloc, resp, sem, waiters, cache>>

\* the three searches (threads of asyncio.to_thread) have returned; the agent
\* merges the reviews and, with enough of them, asks for the summary
SearchesReturn(r) ==
    LET t == Agent(r, "reviews")
    IN  /\ pc[t] = "searching" /\ LoopIdle
        /\ \E google \in GoogleSearches, tp \in TrustpilotSearches, general \in GeneralSearches :
              LET all_reviews == AllReviews(google, tp, general)
                  rating == TrustpilotRating(tp)
                  key == SummaryKey(req[r], all_reviews)
              IN  IF Len(all_reviews) < MinReviewsForSummary
                  THEN /\ Returns(r, "reviews", ReviewsOutcome(all_reviews, rating, DefaultSummary))
                       /\ pc' = [pc EXCEPT ![t] = "done"]
                       /\ UNCHANGED <<loc, sem, waiters>>
                  ELSE IF key \in DOMAIN cache
                  THEN /\ Returns(r, "reviews",
                                  ReviewsOutcome(all_reviews, rating, ParseSummary(cache[key])))
                       /\ pc' = [pc EXCEPT ![t] = "done"]
                       /\ UNCHANGED <<loc, sem, waiters>>
                  ELSE /\ loc' = [loc EXCEPT ![t] = [all_reviews |-> all_reviews,
                                                     trustpilot_rating |-> rating]]
                       /\ EnterSemaphore(t)
                       /\ pc' = [pc EXCEPT ![t] = PcEnter]
                       /\ UNCHANGED <<out, settled>>
        /\ UNCHANGED <<tavilyKey, req, runq, hloc, resp, cache>>

\* the provider answers the summary call; the agent runs to its return
SummaryReturns(r) ==
    LET t == Agent(r, "reviews")
        key == SummaryKey(req[r], loc[t].all_reviews)
    IN  /\ pc[t] = "inflight" /\ LoopIdle
        /\ \E answer \in SummaryAnswers :
              /\ cache' = TextCache(key, answer)
              /\ Returns(r, "reviews",
                         ReviewsOutcome(loc[t].all_reviews, loc[t].trustpilot_rating,
                                        ParseSummary(TextResult(answer))))
        /\ LeaveSemaphore
        /\ pc' = Woken([pc EXCEPT ![t] = "done"])
        /\ loc' = [loc EXCEPT ![t] = None]
        /\ UNCHANGED <<tavilyKey, req, runq, hloc, resp>>

(***************************************************************************)
(* agents/price_comparison_agent.py: the steps of the coroutine            *)
(***************************************************************************)
\* price_comparison_agent up to its call of client.search.  The call is made
\* directly, not through asyncio.to_thread: the coroutine does not yield, so
\* the task stays the one the loop is running (the head of runq)
StartPrice(r) ==
    LET t == Agent(r, "price_comparison")
    IN  /\ runq # <<>> /\ Head(runq) = t /\ pc[t] = "ready"
        /\ IF ~tavilyKey \/ req[r].product_name_len < 3
           THEN /\ Returns(r, "price_comparison", PriceSkipped)
                /\ pc' = [pc EXCEPT ![t] = "done"]
                /\ runq' = Tail(runq)
           ELSE /\ pc' = [pc EXCEPT ![t] = "search"]
                /\ UNCHANGED <<runq, out, settled>>
        /\ UNCHANGED <<tavilyKey, req, loc, hloc, resp, sem, waiters, cache>>

\* client.search returns or raises; the agent runs on to the gather of the
\* extractions
PriceSearchReturns(r) ==
    LET t == Agent(r, "price_comparison")
    IN  /\ runq # <<>> /\ Head(runq) = t /\ pc[t] = "search"
        /\ \E response \in PriceSearches :
              LET results == IF response.tag = "none" THEN <<>>
                             ELSE FirstResults(ResultsToProcess(response.results,
                                                                req[r].domain, {}))
              IN  IF response.tag = "none"
                  THEN /\ Returns(r, "price_comparison", PriceFallback)
                       /\ pc' = [pc EXCEPT ![t] = "done"]
                       /\ runq' = Tail(runq)
                       /\ UNCHANGED loc
                  ELSE IF results = <<>>
                  THEN /\ Returns(r, "price_comparison",
                                  PriceOutcome(<<>>, req[r].html_price))
                       /\ pc' = [pc EXCEPT ![t] = "done"]
                       /\ runq' = Tail(runq)
                       /\ UNCHANGED loc
                  ELSE /\ loc' = [loc EXCEPT ![t] = results]
                       /\ pc' = [x \in Tasks |->
                                    IF x = t THEN "wait"
                                    ELSE IF x[1] = r /\ x[2] = "extract" /\ x[3] <= Len(results)
                                    THEN "ready" ELSE pc[x]]
                       /\ runq' = Tail(runq) \o [i \in DOMAIN results |-> Extract(r, i)]
                       /\ UNCHANGED <<out, settled>>
        /\ UNCHANGED <<tavilyKey, req, hloc, resp, sem, waiters, cache>>

\* process_single_result up to the provider call of extract_price_with_llm
StartExtract(r, i) ==
    LET t == Extract(r, i)
        hit == loc[Agent(r, "price_comparison")][i]
        key == ExtractKey(req[r], hit)
    IN  /\ runq # <<>> /\ Head(runq) = t
        /\ runq' = Tail(runq)
        /\ IF key \in DOMAIN cache
           THEN /\ loc' = [loc EXCEPT ![t] = SingleResult(hit, StructuredHit(key, "ExtractedPrice"))]
                /\ pc' = [pc EXCEPT ![t] = "done"]
                /\ UNCHANGED <<sem, waiters>>
           ELSE /\ EnterSemaphore(t)
                /\ pc' = [pc EXCEPT ![t] = PcEnter]
                /\ UNCHANGED loc
        /\ UNCHANGED <<tavilyKey, req, out, settled, hloc, resp, cache>>

\* the provider answers the extraction; process_single_result returns
ExtractReturns(r, i) ==
    LET t == Extract(r, i)
        hit == loc[Agent(r, "price_comparison")][i]
        key == ExtractKey(req[r], hit)
    IN  /\ pc[t] = "inflight" /\ LoopIdle
        /\ \E answer \in ExtractAnswers :
              /\ cache' = StructuredCache(key, "ExtractedPrice", answer)
              /\ loc' = [loc EXCEPT ![t] = SingleResult(hit, StructuredResult("ExtractedPrice", answer))]
        /\ LeaveSemaphore
        /\ pc' = Woken([pc EXCEPT ![t] = "done"])
        /\ UNCHANGED <<tavilyKey, req, runq, out, settled, hloc, resp>>

\* the gather of the extractions is complete; the agent runs to its return
PriceReturns(r) ==
    LET t == Agent(r, "price_comparison")
        n == Len(loc[t])
    IN  /\ pc[t] = "wait" /\ LoopIdle
        /\ \A i \in 1..n : pc[Extract(r, i)] = "done"
        /\ Returns(r, "price_comparison",
                   PriceOutcome([i \in 1..n |-> loc[Extract(r, i)]], req[r].html_price))
        /\ pc' = [x \in Tasks |-> IF x = t THEN "done"
                                  ELSE IF x[1] = r /\ x[2] = "extract" THEN "idle" ELSE pc[x]]
        /\ loc' = [x \in Tasks |-> IF x = t \/ (x[1] = r /\ x[2] = "extract") THEN None ELSE loc[x]]
        /\ UNCHANGED <<tavilyKey, req, runq, hloc, resp, sem, waiters, cache>>

\* the results in the order the agents returned
GenericResultsAsCompleted(r) == [i \in DOMAIN settled[r] |-> out[Agent(r, settled[r][i])]]

\* what the gather of analyze_page returns: the results in the order of its
\* arguments
GenericResults(r) == [i \in DOMAIN GenericAgents |-> out[Agent(r, GenericAgents[i])]]

\* analyze_page after the gather: the response
Aggregate(r) ==
    /\ req[r].profile = "generic" /\ resp[r] = NoResp /\ LoopIdle
    /\ \A i \in DOMAIN GenericAgents : pc[Agent(r, GenericAgents[i])] = "done"
    /\ resp' = [resp EXCEPT ![r] = AnalyzePageResult(GenericResults(r)[1],
                    GenericResults(r)[2], GenericResults(r)[3])]
    /\ UNCHANGED <<tavilyKey, req, pc, runq, loc, out, settled, hloc, sem, waiters, cache>>

(***************************************************************************)
(* main.py: POST /analyze/marketplace                                      *)
(***************************************************************************)
\* the phase-1 agents that never suspend
RuleAgents == {"seller_trust", "seller_history", "pricing", "price_analysis",
               "red_flags", "description_quality"}

RuleOutcome(a, request, current_year) ==
    CASE a = "seller_trust" -> SellerTrust(request, current_year)
      [] a = "seller_history" -> SellerHistory(request)
      [] a = "pricing" -> Pricing(request)
      [] a = "price_analysis" -> PriceAnalysis(request)
      [] a = "red_flags" -> RedFlags(request)
      [] a = "description_quality" -> DescriptionQuality(request)

\* analyze_marketplace up to `await asyncio.gather(...)`
AnalyzeMarketplace(r) ==
    /\ Arrives(r)
    /\ \E request \in MarketplaceRequests : req' = [req EXCEPT ![r] = request]
    /\ runq' = [i \in DOMAIN Phase1Agents |-> Agent(r, Phase1Agents[i])]
    /\ pc' = [t \in Tasks |-> IF t[1] = r /\ t[2] \in Range(Phase1Agents) THEN "ready" ELSE pc[t]]
    /\ UNCHANGED <<tavilyKey, loc, out, settled, hloc, resp, sem, waiters, cache>>

\* a rule-based agent runs from its first line to its return
RunRuleAgent(r, a) ==
    LET t == Agent(r, a)
    IN  /\ runq # <<>> /\ Head(runq) = t
        /\ runq' = Tail(runq)
        /\ \E current_year \in Years : Returns(r, a, RuleOutcome(a, req[r], current_year))
        /\ pc' = [pc EXCEPT ![t] = "done"]
        /\ UNCHANGED <<tavilyKey, req, loc, hloc, resp, sem, waiters, cache>>

\* image_analysis_agent up to the provider call
StartImage(r) ==
    LET t == Agent(r, "image_analysis")
        key == ImageKey(req[r])
    IN  /\ runq # <<>> /\ Head(runq) = t
        /\ runq' = Tail(runq)
        /\ IF req[r].screenshot = "none"
           THEN /\ Returns(r, "image_analysis", ImageOutcome(req[r], None))
                /\ pc' = [pc EXCEPT ![t] = "done"]
                /\ UNCHANGED <<sem, waiters>>
           ELSE IF key \in DOMAIN cache
           THEN /\ Returns(r, "image_analysis",
                           ImageOutcome(req[r], StructuredHit(key, "ImageAnalysisResult")))
                /\ pc' = [pc EXCEPT ![t] = "done"]
                /\ UNCHANGED <<sem, waiters>>
           ELSE /\ EnterSemaphore(t)
                /\ pc' = [pc EXCEPT ![t] = PcEnter]
                /\ UNCHANGED <<out, settled>>
        /\ UNCHANGED <<tavilyKey, req, loc, hloc, resp, cache>>

\* the provider answers the vision call; the agent runs to its return
ImageReturns(r) ==
    LET t == Agent(r, "image_analysis")
        key == ImageKey(req[r])
    IN  /\ pc[t] = "inflight" /\ LoopIdle
        /\ \E answer \in ImageAnswers :
              /\ cache' = StructuredCache(key, "ImageAnalysisResult", answer)
              /\ Returns(r, "image_analysis",
                         ImageOutcome(req[r], StructuredResult("ImageAnalysisResult", answer)))
        /\ LeaveSemaphore
        /\ pc' = Woken([pc EXCEPT ![t] = "done"])
        /\ UNCHANGED <<tavilyKey, req, runq, loc, hloc, resp>>

\* every phase-1 agent has started
Phase1Started(r) ==
    \A i \in DOMAIN Phase1Agents : pc[Agent(r, Phase1Agents[i])] \notin {"idle", "ready"}

\* the phase-1 gather is complete
Phase1Settled(r) == \A i \in DOMAIN Phase1Agents : pc[Agent(r, Phase1Agents[i])] = "done"

\* what the phase-1 gather returns: the results in the order of its arguments
Phase1Results(r) == [i \in DOMAIN Phase1Agents |-> out[Agent(r, Phase1Agents[i])]]

\* analyze_marketplace from the return of the gather to the provider call of
\* supplier_confidence_agent; on a cache hit, to the response
StartPhase2(r) ==
    LET t == Agent(r, HolisticAgent)
        results == Phase1Results(r)
        rule_based_flags == RuleBasedFlags(results)
        score_breakdown == ScoreBreakdown(results)
        image_analysis == ImageAnalysisDetails(results[5])
    IN  /\ req[r].profile = "marketplace" /\ pc[t] = "idle" /\ LoopIdle
        /\ Phase1Settled(r)
        /\ \E current_year \in Years :
              LET years_on_platform == YearsOnPlatform(req[r], current_year)
                  key == SupplierKey(req[r], rule_based_flags, image_analysis,
                                     years_on_platform)
              IN  \* the clock does not run backwards between the two phases
                  /\ years_on_platform # NoCount =>
                        years_on_platform >= results[1].details.account_age_years
                  /\ hloc' = [hloc EXCEPT ![r] = [rule_based_flags |-> rule_based_flags,
                                                  score_breakdown |-> score_breakdown,
                                                  image_analysis |-> image_analysis,
                                                  years_on_platform |-> years_on_platform]]
                  /\ IF key \in DOMAIN cache
                     THEN LET ai_res ==
                                  SupplierOutcome(StructuredHit(key, "SupplierConfidenceResult"))
                          IN  /\ Returns(r, HolisticAgent, ai_res)
                              /\ pc' = [pc EXCEPT ![t] = "done"]
                              /\ resp' = [resp EXCEPT ![r] =
                                              MarketplaceResult(ai_res, rule_based_flags,
                                                                score_breakdown)]
                              /\ UNCHANGED <<sem, waiters>>
                     ELSE /\ EnterSemaphore(t)
                          /\ pc' = [pc EXCEPT ![t] = PcEnter]
                          /\ UNCHANGED <<out, settled, resp>>
        /\ UNCHANGED <<tavilyKey, req, runq, loc, cache>>

\* the provider answers the holistic call; supplier_confidence_agent returns
\* and analyze_marketplace runs to its response
SupplierReturns(r) ==
    LET t == Agent(r, HolisticAgent)
        key == SupplierKey(req[r], hloc[r].rule_based_flags, hloc[r].image_analysis,
                           hloc[r].years_on_platform)
    IN  /\ pc[t] = "inflight" /\ LoopIdle
        /\ \E answer \in SupplierAnswers :
              LET ai_res == SupplierOutcome(StructuredResult("SupplierConfidenceResult", answer))
              IN  /\ cache' = StructuredCache(key, "SupplierConfidenceResult", answer)
                  /\ Returns(r, HolisticAgent, ai_res)
                  /\ resp' = [resp EXCEPT ![r] =
                                MarketplaceResult(ai_res, hloc[r].rule_based_flags,
                                                  hloc[r].score_breakdown)]
        /\ LeaveSemaphore
        /\ pc' = Woken([pc EXCEPT ![t] = "done"])
        /\ UNCHANGED <<tavilyKey, req, runq, loc, hloc>>

GenericNext ==
    \E r \in Reqs :
        \/ Analyze(r)
        \/ StartGuard(r)
        \/ GuardReturns(r)
        \/ StartReviews(r)
        \/ SearchesReturn(r)
        \/ SummaryReturns(r)
        \/ StartPrice(r)
        \/ PriceSearchReturns(r)
        \/ \E i \in Extracts : StartExtract(r, i) \/ ExtractReturns(r, i)
        \/ PriceReturns(r)
        \/ Aggregate(r)

MarketplaceNext ==
    \E r \in Reqs :
        \/ AnalyzeMarketplace(r)
        \/ \E a \in RuleAgents : RunRuleAgent(r, a)
        \/ StartImage(r)
        \/ ImageReturns(r)
        \/ StartPhase2(r)
        \/ SupplierReturns(r)

Next == GenericNext \/ MarketplaceNext

\* the server receives requests to /analyze only
GenericSpec == Init /\ [][GenericNext]_vars

Spec == Init /\ [][Next]_vars

\* the server receives requests to /analyze/marketplace only
MarketplaceSpec == Init /\ [][MarketplaceNext]_vars
(***************************************************************************)
(* Progress.  The event loop runs every task that is ready, and a call     *)
(* that is answered resumes its caller; FairSpec takes every external call *)
(* to be answered, HungSearchSpec every call but the product search of     *)
(* price_comparison_agent                                                  *)
(***************************************************************************)
FairSpec == GenericSpec /\ WF_vars(GenericNext)

\* every step of the /analyze profile but the return of client.search(...)
AllButPriceSearch ==
    \E r \in Reqs :
        \/ Analyze(r)
        \/ StartGuard(r)
        \/ GuardReturns(r)
        \/ StartReviews(r)
        \/ SearchesReturn(r)
        \/ SummaryReturns(r)
        \/ StartPrice(r)
        \/ \E i \in Extracts : StartExtract(r, i) \/ ExtractReturns(r, i)
        \/ PriceReturns(r)
        \/ Aggregate(r)

HungSearchSpec == GenericSpec /\ WF_vars(AllButPriceSearch)

\* every step of the /analyze profile but the return of the guard's provider call
AllButGuardCall ==
    \E r \in Reqs :
        \/ Analyze(r)
        \/ StartGuard(r)
        \/ StartReviews(r)
        \/ SearchesReturn(r)
        \/ SummaryReturns(r)
        \/ StartPrice(r)
        \/ PriceSearchReturns(r)
        \/ \E i \in Extracts : StartExtract(r, i) \/ ExtractReturns(r, i)
        \/ PriceReturns(r)
        \/ Aggregate(r)

HungGuardSpec == GenericSpec /\ WF_vars(AllButGuardCall)

(***************************************************************************)
(* The rule-based agents on their own: two listings of one product at any  *)
(* two prices, sold by a seller with no join date and "0" listings, are    *)
(* handed to seller_history_agent and price_analysis_agent                 *)
(***************************************************************************)
\* the seller has no join date and "0" listings; the titles are
\* "iPhone 15, cambio por PS5" and "AirPods Pro"
ProbeRequests ==
    { MarketplaceRequest("probe", "none",
          ListingInfo(t, "iphone", Price("amount", k * PriceStep), NoDescription, NoText, NoLocation, 0),
          SellerInfo(0, FALSE, "none", NoCount, 0, NoCount, NoCount, NoCount, <<>>, <<>>, NoLocation),
          0) : t \in { {"iphone 15", "ps5"}, {"airpods pro"} }, k \in 0..MaxPriceSteps }

ProbeAgents == <<"seller_history", "price_analysis">>

RulesInit ==
    /\ tavilyKey = FALSE
    /\ \E a, b \in ProbeRequests :
          /\ a.listing.products = b.listing.products
          /\ req = [r \in Reqs |-> IF r = 1 THEN a ELSE IF r = 2 THEN b ELSE NoReq]
    /\ pc = [t \in Tasks |-> IF t[1] <= 2 /\ t[2] \in Range(ProbeAgents)
                             THEN "ready" ELSE "idle"]
    /\ runq = [i \in 1..4 |-> Agent((i + 1) \div 2, ProbeAgents[2 - (i % 2)])]
    /\ loc = [t \in Tasks |-> None]
    /\ out = [t \in Tasks |-> None]
    /\ settled = [r \in Reqs |-> <<>>]
    /\ hloc = [r \in Reqs |-> None]
    /\ resp = [r \in Reqs |-> NoResp]
    /\ sem = SemaphorePermits
    /\ waiters = <<>>
    /\ cache = <<>>

RulesNext == \E r \in Reqs : \E a \in Range(ProbeAgents) : RunRuleAgent(r, a)

RulesSpec == RulesInit /\ [][RulesNext]_vars

(***************************************************************************)
(* red_flags_agent and seller_trust_agent on their own: the texts hold any  *)
(* mix of payment, contact and scam patterns, the sellers any mix of the    *)
(* trust signals the profile can show                                       *)
(***************************************************************************)
TrustTexts ==
    { CombinedText(payment, contact, email, scam) :
          payment \in SUBSET {"bitcoin", "transferencia", "zelle"},
          contact \in SUBSET {"telegram", "whatsapp"},
          email \in BOOLEAN,
          scam \in SUBSET {"deposito", "send deposit", "solo envio"} }

TrustLocations == { Location(n, FALSE) : n \in {"", "santiago", "arica"} }

TrustSellers ==
    { SellerInfo(join_year, FALSE, "none", NoCount, listings_count, followers_count,
                 ratings_count, ratings_average, badges, strengths, Location("arica", FALSE)) :
          join_year \in {0, CurrentYear, CurrentYear - 15},
          listings_count \in {NoCount, 20},
          followers_count \in {NoCount, 60},
          ratings_count \in {NoCount, 0, 12},
          ratings_average \in {NoCount, 20, 48},
          badges \in {<<>>, <<"good_rating", "top">>, <<"top", "responds_quickly", "top">>},
          strengths \in {<<>>, <<3, 4>>, <<13, 9>>} }

PlainSeller ==
    SellerInfo(0, FALSE, "none", NoCount, NoCount, NoCount, NoCount, NoCount, <<>>, <<>>,
               Location("arica", FALSE))

TrustRequests ==
    { MarketplaceRequest("trust", "none",
          ListingInfo({}, "none", Price("amount", 100), NoDescription, text, location, 0),
          seller, 0) :
          text \in TrustTexts, location \in TrustLocations, seller \in {PlainSeller, None} }
    \cup
    { MarketplaceRequest("trust", "none",
          ListingInfo({}, "none", Price("amount", 100), NoDescription, NoText, NoLocation, 0),
          seller, 0) : seller \in TrustSellers }

TrustAgents == <<"red_flags", "seller_trust">>

TrustInit ==
    /\ tavilyKey = FALSE
    /\ \E request \in TrustRequests :
          req = [r \in Reqs |-> IF r = 1 THEN request ELSE NoReq]
    /\ pc = [t \in Tasks |-> IF t[1] = 1 /\ t[2] \in Range(TrustAgents)
                             THEN "ready" ELSE "idle"]
    /\ runq = [i \in 1..2 |-> Agent(1, TrustAgents[i])]
    /\ loc = [t \in Tasks |-> None]
    /\ out = [t \in Tasks |-> None]
    /\ settled = [r \in Reqs |-> <<>>]
    /\ hloc = [r \in Reqs |-> None]
    /\ resp = [r \in Reqs |-> NoResp]
    /\ sem = SemaphorePermits
    /\ waiters = <<>>
    /\ cache = <<>>

TrustNext == \E r \in Reqs : \E a \in Range(TrustAgents) : RunRuleAgent(r, a)

TrustSpec == TrustInit /\ [][TrustNext]_vars

(***************************************************************************)
(* The verdict of price_comparison_agent on its own: the agent has found   *)
(* two stores, both extractions have returned, and it goes on from the     *)
(* gather to its return; the prices on the page and of the stores vary     *)
(***************************************************************************)
PriceInit ==
    \E current \in {0, 100000, 125000, 126000, 150000} :
    \E amounts \in {<<>>, <<60000>>, <<130000, 22499>>} \X {<<>>, <<60000>>, <<130000, 22499>>} :
    \E answers \in ExtractAnswers \X (ExtractAnswers \cup {ApiText("plain", "ExtractedPrice", ExtractedPrice(120000, 90, FALSE)), ApiText("plain", "ExtractedPrice", ExtractedPrice(140000, 40, FALSE))}) :
        LET request == [profile |-> "generic", page |-> "shop/zapatilla", domain |-> ShopCl,
                        product_name_len |-> 9, html_price |-> current]
            hits == << PriceHit(OtraCl, TRUE, amounts[1], "otra"),
                       PriceHit(<<"d", ".", "c", "l">>, TRUE, amounts[2], "d") >>
            result == [i \in 1..2 |-> StructuredResult("ExtractedPrice", answers[i])]
            stored == {i \in 1..2 : result[i].tag = "ok"}
        IN  /\ tavilyKey = TRUE
            /\ req = [r \in Reqs |-> IF r = 1 THEN request ELSE NoReq]
            /\ pc = [t \in Tasks |->
                        IF t \in {Agent(1, "guard"), Agent(1, "reviews"), Extract(1, 1), Extract(1, 2)}
                        THEN "done"
                        ELSE IF t = Agent(1, "price_comparison") THEN "wait" ELSE "idle"]
            /\ runq = <<>>
            /\ loc = [t \in Tasks |->
                        IF t = Agent(1, "price_comparison") THEN hits
                        ELSE IF t \in {Extract(1, 1), Extract(1, 2)}
                        THEN SingleResult(hits[t[3]], result[t[3]]) ELSE None]
            /\ out = [t \in Tasks |->
                        IF t = Agent(1, "guard") THEN GuardOutcome(None)
                        ELSE IF t = Agent(1, "reviews") THEN ReviewsFallback ELSE None]
            /\ settled = [r \in Reqs |-> IF r = 1 THEN <<"guard", "reviews">> ELSE <<>>]
            /\ hloc = [r \in Reqs |-> None]
            /\ resp = [r \in Reqs |-> NoResp]
            /\ sem = SemaphorePermits
            /\ waiters = <<>>
            /\ cache = [k \in {ExtractKey(request, hits[i]) : i \in stored} |->
                          LET i == CHOOSE j \in stored : ExtractKey(request, hits[j]) = k
                          IN  StripJson(answers[i].text)]

PriceNext == \E r \in Reqs : PriceReturns(r) \/ Aggregate(r)

PriceSpec == PriceInit /\ [][PriceNext]_vars

(***************************************************************************)
(* Properties                                                              *)
(***************************************************************************)
Answered(r) == resp[r].status = "ok"
Page(r) == req[r].profile = "generic"
Listing(r) == req[r].profile = "marketplace"
Guard(r) == out[Agent(r, "guard")]
Reviews(r) == out[Agent(r, "reviews")]
PriceComparison(r) == out[Agent(r, "price_comparison")]
Holistic(r) == out[Agent(r, HolisticAgent)]
Of(r, a) == out[Agent(r, a)]

\* the tier the fixed thresholds give a score
TierOf(score) ==
    IF score >= 80 THEN "safe" ELSE IF score >= 50 THEN "suspicious" ELSE "dangerous"

\* C1: the score of every AnalysisResult, of either endpoint, is an integer
\* between 0 and 100, whatever the agents returned.
C1_ScoreInRange ==
    \A r \in Reqs : Answered(r) => resp[r].score \in 0..100

\* C1, its case: a page whose guard and reviews impacts sum to more than 100
\* is answered with score 0.
C1_Witness ==
    \E r \in Reqs :
        /\ Page(r) /\ Answered(r)
        /\ 100 - Guard(r).score_impact - Reviews(r).score_impact < 0
        /\ resp[r].score = 0

\* C2: whatever the agents and the external calls returned (the risk level
\* of the holistic agent included), a request that is answered is answered
\* with a complete AnalysisResult.
C2_AlwaysComplete ==
    \A r \in Reqs : resp[r].status # "none" => resp[r].status = "ok"

\* agent a of request r returned after an internal failure: the guard's
\* combined check failed, the reviews or the price agent took its outer
\* handler, the vision call or the holistic call gave nothing
Degraded(r, a) ==
    /\ pc[Agent(r, a)] = "done"
    /\ CASE a = "guard" -> Of(r, a).details.analysis.tag = "none"
         [] a = "reviews" -> Of(r, a) = ReviewsFallback
         [] a = "price_comparison" -> tavilyKey /\ req[r].product_name_len >= 3
                                        /\ ~Of(r, a).details.checked
         [] a = "image_analysis" -> req[r].screenshot # "none"
                                        /\ Of(r, a).details.ai_analysis.tag = "none"
         [] a = "supplier_confidence" -> Of(r, a).details.analysis_method = "fallback"
         [] OTHER -> FALSE

\* C3: an agent that fails inside returns a score impact of 0 and at most
\* one flag.
C3_NeutralOnFailure ==
    \A r \in Reqs : \A a \in AgentNames :
        Degraded(r, a) => GetImpact(Of(r, a)) = 0 /\ Len(Of(r, a).flags) <= 1

\* C4: the score of /analyze is 100 minus the guard's and the reviews'
\* impact, clamped to 0..100; the price comparison has no part in it.
C4_PageScore ==
    \A r \in Reqs :
        Page(r) /\ Answered(r) =>
            LET raw == 100 - Guard(r).score_impact - Reviews(r).score_impact
            IN  resp[r].score = (IF raw < 0 THEN 0 ELSE IF raw > 100 THEN 100 ELSE raw)

\* C4, its case: both impacts are positive and the price comparison found
\* the price high.
C4_Witness ==
    \E r \in Reqs :
        /\ Page(r) /\ Answered(r)
        /\ Guard(r).score_impact = 40 /\ Reviews(r).score_impact = 10
        /\ PriceComparison(r).details.price_verdict = "precio_alto"
        /\ resp[r].score = 50

\* C5: the risk level of /analyze follows from the final score alone: safe
\* from 80, suspicious from 50 to 79, dangerous below 50.
C5_PageTier ==
    \A r \in Reqs :
        Page(r) /\ Answered(r) =>
            /\ resp[r].score >= 80 => resp[r].risk_level = "safe"
            /\ resp[r].score >= 50 /\ resp[r].score < 80 => resp[r].risk_level = "suspicious"
            /\ resp[r].score < 50 => resp[r].risk_level = "dangerous"

\* C5, its case: a page answered with score exactly 80.
C5_Witness ==
    \E r \in Reqs : Page(r) /\ Answered(r) /\ resp[r].score = 80 /\ resp[r].risk_level = "safe"

\* the phase-1 score impacts of request r, in declaration order
Phase1Impacts(r) == [i \in DOMAIN Phase1Agents |-> Of(r, Phase1Agents[i]).score_impact]

C7_TierOfScore ==
    \A r \in Reqs : Answered(r) => resp[r].risk_level = TierOf(resp[r].score)

\* the flag lists of agents as, of request r, one after the other
FlagsInOrder(r, as) == Concat([i \in DOMAIN as |-> Of(r, as[i]).flags])

\* C8: the flags of a response are the agents' flag lists one after the
\* other in the order the profile declares its agents, each list as its
\* agent returned it, whatever order the agents completed in.
C8_FlagsInDeclarationOrder ==
    \A r \in Reqs :
        Answered(r) =>
            resp[r].flags =
                IF Page(r) THEN FlagsInOrder(r, GenericAgents)
                ELSE FlagsInOrder(r, Phase1Agents \o <<HolisticAgent>>)

\* C8, its case: the agents of a page completed in the reverse of their
\* declaration order, each with flags of its own, and so did the vision
\* agent of a listing complete after the agents declared after it.
C8_Witness ==
    /\ \E r \in Reqs :
          /\ Page(r) /\ Answered(r)
          /\ settled[r] = <<"price_comparison", "reviews", "guard">>
          /\ \A i \in DOMAIN GenericAgents : Of(r, GenericAgents[i]).flags # <<>>
    /\ \E r \in Reqs :
          /\ Listing(r) /\ Answered(r)
          /\ settled[r][7] = "image_analysis"
          /\ Of(r, "image_analysis").flags # <<>>
          /\ Of(r, "red_flags").flags # <<>>

\* the holistic agent of request r has been started
HolisticStarted(r) == pc[Agent(r, HolisticAgent)] # "idle"

\* C9: the holistic agent of a listing is started only when the seven
\* phase-1 agents have returned, and with the flags of all seven, in order.
C9_Phase2AfterPhase1 ==
    \A r \in Reqs :
        HolisticStarted(r) =>
            /\ \A i \in DOMAIN Phase1Agents : Phase1Agents[i] \in Range(settled[r])
            /\ \A i \in DOMAIN Phase1Agents : pc[Agent(r, Phase1Agents[i])] = "done"
            /\ hloc[r].rule_based_flags = FlagsInOrder(r, Phase1Agents)

\* C9, its case: the holistic call of a listing is in flight, and the vision
\* agent was the last of phase 1 to return, with flags.
C9_Witness ==
    \E r \in Reqs :
        /\ pc[Agent(r, HolisticAgent)] = "inflight"
        /\ settled[r][7] = "image_analysis"
        /\ Len(Of(r, "image_analysis").flags) >= 2

\* the permits out are the calls in flight, which are at most 4; a caller
\* waits only when no permit is left, and stays queued while it waits
PermitsAccounted ==
    /\ Cardinality(Holders) <= SemaphorePermits
    /\ sem = SemaphorePermits - Cardinality(Holders)
    /\ waiters # <<>> => sem = 0
    /\ Range(waiters) = {t \in Tasks : pc[t] = "waitsem"}
    /\ Len(waiters) = Cardinality(Range(waiters))

\* on every return of a provider call, with an answer or with an error, the
\* permit goes to the first waiter if there is one and back to the semaphore
\* if there is none
PermitReturned ==
    [][\A t \in Tasks :
          pc[t] = "inflight" /\ pc'[t] # "inflight" =>
             IF waiters # <<>>
             THEN pc'[Head(waiters)] = "inflight" /\ waiters' = Tail(waiters) /\ sem' = sem
             ELSE sem' = sem + 1]_vars

GuardAnalyses ==
    {GuardAnalysis(ph, pb, ifr, cs, lo) : ph, pb, ifr, cs, lo \in BOOLEAN}

\* the guard of request r returned with an analysis
GuardAnalysed(r) ==
    pc[Agent(r, "guard")] = "done" /\ Guard(r).details.analysis.tag = "ok"

\* the guard of request r returned without one
GuardFailed(r) ==
    pc[Agent(r, "guard")] = "done" /\ Guard(r).details.analysis.tag = "none"

\* C11: with phishing detected the guard returns an impact of exactly 100,
\* whatever else it detected, and a page whose reviews agent contributes 0
\* is then answered with score 0 and tier dangerous.
C11_PhishingForcesZero ==
    /\ \A full \in GuardAnalyses :
          full.phishing_detected => GuardOutcome(full).score_impact = 100
    /\ \A r \in Reqs :
          GuardAnalysed(r) /\ Guard(r).details.analysis.phishing_detected =>
             /\ Guard(r).score_impact = 100
             /\ Answered(r) /\ Reviews(r).score_impact = 0 =>
                    resp[r].score = 0 /\ resp[r].risk_level = "dangerous"

\* C11, its case: phishing and an iframe risk were detected (110 before the
\* cap), the reviews agent contributed 0, and the page was answered.
C11_Witness ==
    \E r \in Reqs :
        /\ GuardAnalysed(r) /\ Answered(r)
        /\ Guard(r).details.analysis.phishing_detected
        /\ Guard(r).details.analysis.iframe_risk_detected
        /\ Reviews(r).score_impact = 0
        /\ resp[r].score = 0

\* the flags of outcome res whose message is m
FlagsNamed(res, m) == SelectSeq(res.flags, LAMBDA f : f.msg = <<m>>)

\* the guard outcome for analysis full reports risk m (found iff hit) as the
\* code's escalation rule says: one flag, critical with the purchase button
\* and warning without
Escalates(full, m, hit) ==
    LET res == GuardOutcome(full)
        type == IF full.purchase_button_present THEN "critical" ELSE "warning"
    IN  IF hit THEN FlagsNamed(res, m) = << Flag(type, m) >>
        ELSE FlagsNamed(res, m) = << >>

\* what the two risks add to the impact of a guard outcome without phishing
RisksImpact(full) ==
    LET each == IF full.purchase_button_present THEN 20 ELSE 10
    IN  (IF full.iframe_risk_detected THEN each ELSE 0)
            + (IF full.csrf_risk_detected THEN each ELSE 0)

\* C12: a detected iframe risk and a detected CSRF risk each give a critical
\* flag and +20 with a purchase button, a warning flag and +10 without; two
\* analyses that differ in the purchase button alone differ in nothing else
\* of these flags.
C12_SeverityEscalation ==
    /\ \A full \in GuardAnalyses :
          /\ Escalates(full, "iframe_risk", full.iframe_risk_detected)
          /\ Escalates(full, "csrf_risk", full.csrf_risk_detected)
          /\ ~full.phishing_detected =>
                GuardOutcome(full).score_impact =
                    RisksImpact(full) + (IF full.suspiciously_low_price THEN 40 ELSE 0)
    /\ \A r \in Reqs :
          GuardAnalysed(r) =>
             /\ Escalates(Guard(r).details.analysis, "iframe_risk",
                          Guard(r).details.analysis.iframe_risk_detected)
             /\ Guard(r) = GuardOutcome(Guard(r).details.analysis)

\* C12, its case: the guard found an iframe risk on a page with a purchase
\* button and returned a critical flag and an impact of 20.
C12_Witness ==
    \E r \in Reqs :
        /\ GuardAnalysed(r)
        /\ Guard(r).details.analysis.iframe_risk_detected
        /\ Guard(r).details.analysis.purchase_button_present
        /\ FlagsNamed(Guard(r), "iframe_risk") = << Flag("critical", "iframe_risk") >>
        /\ Guard(r).score_impact = 20

\* C13: a guard whose combined call failed returns an impact of 0 and a
\* single flag, the warning about the degraded analysis.
C13_SingleWarningFlag ==
    \A r \in Reqs :
        GuardFailed(r) =>
            /\ Guard(r).score_impact = 0
            /\ Guard(r).flags = << Flag("warning", "no_visual_analysis") >>

\* the price-analysis agent of request r returned
PriceAnalysed(r) == pc[Agent(r, "price_analysis")] = "done"
ListedPrice(r) == req[r].listing.price.amount
Matched(r) == Of(r, "price_analysis").details.matched_product

\* the three prices the spec names fall in the tiers it names
TiersAtNamedPrices ==
    \A r \in Reqs :
        PriceAnalysed(r) /\ Matched(r).tag = "ok" =>
            LET res == Of(r, "price_analysis")
            IN  /\ ListedPrice(r) * 10 = 2 * Matched(r).min_market =>
                        res.details.price_tier = "scam"
                /\ ListedPrice(r) * 10 = 4 * Matched(r).min_market =>
                        res.details.price_tier = "very_suspicious"
                /\ ListedPrice(r) * 2 = Matched(r).min_market + Matched(r).max_market =>
                        res.details.price_tier = "fair" /\ res.score_impact < 0

\* C14 as the spec states it: of two listings of one matched product, the
\* cheaper one never has the smaller impact, at whatever prices.
C14_MonotonicEverywhere ==
    /\ TiersAtNamedPrices
    /\ \A r1, r2 \in Reqs :
          /\ PriceAnalysed(r1) /\ PriceAnalysed(r2)
          /\ Matched(r1).tag = "ok" /\ Matched(r1) = Matched(r2)
          /\ ListedPrice(r1) < ListedPrice(r2)
          => Of(r1, "price_analysis").score_impact >= Of(r2, "price_analysis").score_impact

\* C14: of two listings of one matched product priced up to 1.1 times the
\* market maximum, the cheaper one never has the smaller impact; a price
\* above that is tier high with impact 0, which is more than the -5 of the
\* fair tier below it; 0.2*min is scam, 0.4*min very_suspicious, the middle
\* of the range fair with a negative impact.
C14_MonotonicUpToMarket ==
    /\ TiersAtNamedPrices
    /\ \A r1, r2 \in Reqs :
          /\ PriceAnalysed(r1) /\ PriceAnalysed(r2)
          /\ Matched(r1).tag = "ok" /\ Matched(r1) = Matched(r2)
          /\ ListedPrice(r1) < ListedPrice(r2)
          /\ ListedPrice(r2) * 10 <= Matched(r2).max_market * 11
          => Of(r1, "price_analysis").score_impact >= Of(r2, "price_analysis").score_impact
    /\ \A r \in Reqs :
          /\ PriceAnalysed(r) /\ Matched(r).tag = "ok"
          /\ ListedPrice(r) * 10 > Matched(r).max_market * 11
          => /\ Of(r, "price_analysis").details.price_tier = "high"
             /\ Of(r, "price_analysis").score_impact = 0

\* C14, its case: one product listed at 0.2 times the market minimum and at
\* the middle of the market range.
C14_Witness ==
    \E r1, r2 \in Reqs :
        /\ PriceAnalysed(r1) /\ PriceAnalysed(r2)
        /\ Matched(r1).tag = "ok" /\ Matched(r1) = Matched(r2)
        /\ ListedPrice(r1) * 10 = 2 * Matched(r1).min_market
        /\ ListedPrice(r2) * 2 = Matched(r2).min_market + Matched(r2).max_market
        /\ Of(r1, "price_analysis").score_impact = 30
        /\ Of(r2, "price_analysis").score_impact = -5

\* the scenario of C15: listings_count "0", price "$50", a title with
\* "iPhone 15" in it and no longer key of the table
FirstListingIphone(r) ==
    /\ req[r].profile = "marketplace"
    /\ req[r].seller.tag = "ok" /\ req[r].seller.listings_count = 0
    /\ req[r].listing.tag = "ok" /\ req[r].listing.price = Price("amount", 50)
    /\ "iphone 15" \in req[r].listing.products
    /\ req[r].listing.products \cap {"iphone 15 pro", "iphone 15 pro max"} = {}

\* C15: in that scenario the seller-history agent returns one critical
\* first-listing flag and +25, and the price-analysis agent matches
\* "iphone 15" (600 to 1000), finds the price extreme_low, and returns one
\* critical flag and +30.
C15_FirstListingCheapIphone ==
    \A r \in Reqs :
        FirstListingIphone(r) =>
            /\ pc[Agent(r, "seller_history")] = "done" =>
                  /\ Of(r, "seller_history").flags = << Flag("critical", "first_listing") >>
                  /\ Of(r, "seller_history").score_impact = 25
            /\ PriceAnalysed(r) =>
                  /\ Matched(r) = MarketRow("iphone 15", 9, 600, 1000)
                  /\ Of(r, "price_analysis").details.price_vs_market = "extreme_low"
                  /\ Of(r, "price_analysis").score_impact = 30
                  /\ Len(Of(r, "price_analysis").flags) = 1
                  /\ Of(r, "price_analysis").flags[1].type = "critical"

\* C15, its case: both agents have returned on such a listing.
C15_Witness ==
    \E r \in Reqs :
        /\ FirstListingIphone(r)
        /\ pc[Agent(r, "seller_history")] = "done" /\ PriceAnalysed(r)
        /\ Of(r, "seller_history").score_impact = 25
        /\ Of(r, "price_analysis").score_impact = 30

\* every structured call of request r returned null: the vision call, when
\* there was one, and the holistic call
AllCallsFailed(r) ==
    /\ Listing(r) /\ Answered(r)
    /\ Of(r, "image_analysis").details.ai_analysis.tag = "none"
    /\ Of(r, HolisticAgent).details.analysis_method = "fallback"

\* C16: when every structured call of a marketplace request returns null,
\* the holistic agent returns score 50, suspicious and exactly one warning
\* flag, the response has score 50 and tier suspicious, and each phase-1
\* agent returns what its rules alone give.
C16_FallbackVerdict ==
    \A r \in Reqs :
        AllCallsFailed(r) =>
            /\ Holistic(r).score = 50 /\ Holistic(r).risk_level = "suspicious"
            /\ Len(Holistic(r).flags) = 1 /\ Holistic(r).flags[1].type = "warning"
            /\ resp[r].score = 50 /\ resp[r].risk_level = "suspicious"
            /\ \A a \in RuleAgents : \E y \in Years : Of(r, a) = RuleOutcome(a, req[r], y)
            /\ Of(r, "image_analysis").flags = ImageCount(req[r]).flags
            /\ Of(r, "image_analysis").score_impact = ImageCount(req[r]).impact
            /\ resp[r].flags = FlagsInOrder(r, Phase1Agents) \o Holistic(r).flags

\* C16, its case: a listing with a screenshot whose vision call and holistic
\* call both failed, answered with the fallback verdict.
C16_Witness ==
    \E r \in Reqs :
        /\ AllCallsFailed(r) /\ req[r].screenshot # "none"
        /\ resp[r].score = 50
        /\ Of(r, "red_flags").flags # <<>>

\* the reviews agent of request r ran its searches to the end
ReviewsChecked(r) ==
    pc[Agent(r, "reviews")] = "done" /\ Reviews(r).details.reviews_checked

\* a url without its letter case and without its protocol
Normalized(u) == [site |-> u.site, path |-> u.path]

\* C17: no two entries of the merged review list have urls that are equal
\* up to letter case and protocol, and an entry for the reputation site's
\* page is the one of the reputation-site search, which comes first.
C17_UniqueUpToCaseAndProtocol ==
    \A r \in Reqs :
        ReviewsChecked(r) =>
            LET reviews == Reviews(r).details.reviews
            IN  /\ \A i, j \in DOMAIN reviews :
                      i < j => Normalized(reviews[i].url) # Normalized(reviews[j].url)
                /\ \A i \in DOMAIN reviews :
                      Normalized(reviews[i].url) = Normalized(TrustpilotUrl) =>
                          i = 1 /\ reviews[i].source = "Trustpilot"

\* C19: a sentiment of 70 or more gives the reviews agent a negative impact,
\* a sentiment of 30 or less gives +10, and no review at all gives a warning
\* flag and an impact of 0.
C19_SentimentPolicy ==
    \A r \in Reqs :
        ReviewsChecked(r) =>
            /\ Reviews(r).details.sentiment_score >= 70 => Reviews(r).score_impact < 0
            /\ Reviews(r).details.sentiment_score <= 30 => Reviews(r).score_impact = 10
            /\ Reviews(r).details.reviews = <<>> =>
                  /\ Reviews(r).flags = << Flag("warning", "no_reviews") >>
                  /\ Reviews(r).score_impact = 0

\* the price-comparison agent of request r returned
PriceCompared(r) == Page(r) /\ pc[Agent(r, "price_comparison")] = "done"
Comparisons(r) == PriceComparison(r).details.comparisons

\* seven competing stores, each with a price-like content
ManyStores ==
    [i \in 1..7 |-> PriceHit(<< <<"t", "u", "v", "w", "x", "y", "z">>[i], ".", "c", "l" >>, TRUE, <<>>, "store")]

\* C18: no found comparison is of a domain that equals, contains or is
\* contained in the request's domain; no two found comparisons are of one
\* domain; there are at most 5 of them, the first 5 of the results kept.
C18_NoSelfComparison ==
    /\ \A r \in Reqs :
          PriceCompared(r) =>
              /\ \A i \in DOMAIN Comparisons(r) :
                    /\ ~IsSubstring(req[r].domain, Comparisons(r)[i].store)
                    /\ ~IsSubstring(Comparisons(r)[i].store, req[r].domain)
              /\ \A i, j \in DOMAIN Comparisons(r) :
                    i < j => Comparisons(r)[i].store # Comparisons(r)[j].store
              /\ Len(Comparisons(r)) <= 5
    /\ FirstResults(ResultsToProcess(ManyStores, ShopCl, {})) = SubSeq(ManyStores, 1, 5)

\* C18, its case: comparisons were found by a search that ranked the shop
\* itself first, a store whose domain contains the shop's, and one store
\* twice.
C18_Witness ==
    \E r \in Reqs :
        /\ PriceCompared(r) /\ req[r].domain = ShopCl
        /\ Comparisons(r) # <<>> /\ Comparisons(r)[1].store = OtraCl
        /\ \E response \in PriceSearches :
              /\ response.tag = "ok"
              /\ \E i, j, k, l \in DOMAIN response.results :
                    /\ response.results[i].domain = ShopCl
                    /\ response.results[j].domain = EshopCl
                    /\ k < l
                    /\ response.results[k].domain = OtraCl
                    /\ response.results[l].domain = OtraCl

\* the request of r carries neither a listing nor a seller
Unscraped(r) == Listing(r) /\ req[r].seller.tag = "none" /\ req[r].listing.tag = "none"

\* C20: on a request that carries neither a listing nor a seller every
\* check of every phase-1 agent is skipped: the agent returns no flag and a
\* score impact of 0; so does the seller-trust agent without a seller.
C20_MissingFieldsSkipped ==
    \A r \in Reqs : \A a \in Range(Phase1Agents) :
        Unscraped(r) /\ pc[Agent(r, a)] = "done" =>
            Of(r, a).flags = <<>> /\ Of(r, a).score_impact = 0

\* the prices of the found comparisons of request r, and their sum
StorePrices(r) == [i \in DOMAIN Comparisons(r) |-> Comparisons(r)[i].price_numeric]
StoreTotal(r) == SumSeq(StorePrices(r))
Cheapest(r) == CHOOSE p \in Range(StorePrices(r)) : \A q \in Range(StorePrices(r)) : p <= q
Warnings(flags) == SelectSeq(flags, IsWarning)

\* the price-comparison agent of r searched and compared
PricesChecked(r) == PriceCompared(r) /\ PriceComparison(r).details.checked

ImageTask(r) == Agent(r, "image_analysis")
HolisticTask(r) == Agent(r, HolisticAgent)
HolisticKey(r) ==
    SupplierKey(req[r], hloc[r].rule_based_flags, hloc[r].image_analysis, hloc[r].years_on_platform)
ImageCalls(r) == req[r].profile = "marketplace" /\ req[r].screenshot # "none"

\* task t leaves position p in this step
Leaves(t, p) == pc[t] = p /\ pc'[t] # p

\* a call started with its input in the cache returns the entry's value and
\* neither takes a permit nor reaches the provider
ServedFromCache(r) ==
    /\ ImageCalls(r) /\ Leaves(ImageTask(r), "ready") /\ ImageKey(req[r]) \in DOMAIN cache =>
          /\ pc'[ImageTask(r)] = "done" /\ UNCHANGED <<sem, waiters, cache>>
          /\ out'[ImageTask(r)].details.ai_analysis =
                AiAnalysis(ValidateJson("ImageAnalysisResult", cache[ImageKey(req[r])]))
          /\ out'[ImageTask(r)].details.ai_analysis.tag = "ok"
    /\ Leaves(HolisticTask(r), "idle") /\ HolisticKey(r)' \in DOMAIN cache =>
          /\ pc'[HolisticTask(r)] = "done" /\ UNCHANGED <<sem, waiters, cache>>
          /\ out'[HolisticTask(r)].details.analysis_method = "llm"
          /\ out'[HolisticTask(r)].score = cache[HolisticKey(r)'].val.confidence_score

\* a call started with its input not in the cache goes to the provider
MissCallsProvider(r) ==
    /\ ImageCalls(r) /\ Leaves(ImageTask(r), "ready") /\ ImageKey(req[r]) \notin DOMAIN cache =>
          pc'[ImageTask(r)] \in {"inflight", "waitsem"}
    /\ Leaves(HolisticTask(r), "idle") /\ HolisticKey(r)' \notin DOMAIN cache =>
          pc'[HolisticTask(r)] \in {"inflight", "waitsem"}

\* a call that fails returns null to its agent, which returns all the same,
\* and leaves the cache as it was; a call that succeeds stores what it returns
FailureStoresNothing(r) ==
    /\ Leaves(ImageTask(r), "inflight") =>
          /\ pc'[ImageTask(r)] = "done"
          /\ IF out'[ImageTask(r)].details.ai_analysis.tag = "none" THEN cache' = cache
             ELSE /\ ImageKey(req[r]) \in DOMAIN cache'
                  /\ out'[ImageTask(r)].details.ai_analysis =
                        AiAnalysis(ValidateJson("ImageAnalysisResult", cache'[ImageKey(req[r])]))
    /\ Leaves(HolisticTask(r), "inflight") =>
          /\ pc'[HolisticTask(r)] = "done"
          /\ IF out'[HolisticTask(r)].details.analysis_method = "fallback" THEN cache' = cache
             ELSE /\ HolisticKey(r) \in DOMAIN cache'
                  /\ out'[HolisticTask(r)].score = cache'[HolisticKey(r)].val.confidence_score
    /\ Leaves(Agent(r, "reviews"), "inflight") =>
          /\ pc'[Agent(r, "reviews")] = "done"
          /\ cache' = cache \/ SummaryKey(req[r], loc[Agent(r, "reviews")].all_reviews) \in DOMAIN cache'

\* an entry of the cache stays as it was stored
EntriesKept == \A k \in DOMAIN cache : k \in DOMAIN cache' /\ cache'[k] = cache[k]

\* an entry of the cache stays, and changes only when a call with that very
\* input, which missed the cache before the entry was stored, completes
EntriesKeptOrRewritten ==
    \A k \in DOMAIN cache :
        /\ k \in DOMAIN cache'
        /\ cache'[k] # cache[k] =>
              \E r \in Reqs :
                  \/ Leaves(ImageTask(r), "inflight") /\ k = ImageKey(req[r])
                  \/ Leaves(HolisticTask(r), "inflight") /\ k = HolisticKey(r)

OnCall(t) == pc[t] \in {"inflight", "searching", "search"}

\* C23: every provider call and every search call is a suspension point: a
\* task that waits on one has given up the loop, which is idle (the return
\* of any pending call can be handled) or running a task that is ready, so
\* every other agent of the request can step and settle meanwhile.
C23_CallsSuspend ==
    \A t \in Tasks :
        OnCall(t) => runq = <<>> \/ pc[Head(runq)] = "ready"

FlagTypes == {"critical", "warning", "info"}
TypesOf(flags) == {flags[i].type : i \in DOMAIN flags}

\* C24: the type of every flag of every agent outcome and of every response
\* is critical, warning or info.
C24_FlagTypes ==
    /\ \A t \in Tasks : pc[t] = "done" => TypesOf(GetFlags(out[t])) \subseteq FlagTypes
    /\ \A r \in Reqs : Answered(r) => TypesOf(resp[r].flags) \subseteq FlagTypes

\* C24, its case: a response that carries a flag made of a concern of the
\* vision model and a flag made of a concern of the holistic model.
C24_Witness ==
    \E r \in Reqs :
        /\ Listing(r) /\ Answered(r)
        /\ Concern("foto de catalogo") \in Range(Of(r, "image_analysis").flags)
        /\ Concern("precio irreal") \in Range(Holistic(r).flags)
        /\ {Concern("foto de catalogo"), Concern("precio irreal")} \subseteq Range(resp[r].flags)

\* requests r1 and r2 carry the same listing, and agent a has returned on both
SameRun(r1, r2, a) ==
    /\ r1 # r2 /\ Listing(r1) /\ req[r1] = req[r2]
    /\ pc[Agent(r1, a)] = "done" /\ pc[Agent(r2, a)] = "done"

MessagesOf(table) == {table[i][2] : i \in DOMAIN table}
Matching(table, present) == {i \in DOMAIN table : table[i][1] \in present}
FirstOf(table, present) == table[CHOOSE i \in Matching(table, present) : \A j \in Matching(table, present) : i <= j]
FlagsWith(flags, type, msgs) == {i \in DOMAIN flags : flags[i].type = type /\ flags[i].msg[1] \in msgs}
TextOf(request) == IF request.listing.tag = "ok" THEN request.listing.text ELSE NoText
LocationMismatch(request) ==
    /\ request.listing.tag = "ok" /\ request.seller.tag = "ok"
    /\ request.listing.location.name # "" /\ request.seller.location.name # ""
    /\ request.listing.location.name # request.seller.location.name
OneFlagFor(flags, table, present, type) ==
    LET found == FlagsWith(flags, type, MessagesOf(table))
    IN  /\ Cardinality(found) <= 1
        /\ (found # {}) = (Matching(table, present) # {})
        /\ \A i \in found : flags[i].msg[1] = FirstOf(table, present)[2]
\* C26: red_flags_agent emits at most one off-platform-payment flag (critical,
\* +20, for the first pattern of its table the text holds), at most one
\* contact-bypass flag (warning, +10, for the first pattern), one info flag at
\* +3 for every scam phrase the text holds, and its score_impact is the sum of
\* these plus 5 for an e-mail address and 10 for a listing location that
\* differs from the seller's
C26_RedFlags ==
    \A r \in Reqs :
        pc[Agent(r, "red_flags")] = "done" =>
            LET flags == Of(r, "red_flags").flags
                text == TextOf(req[r])
                scams == Cardinality(Matching(scam_phrases, text.scam))
            IN  /\ OneFlagFor(flags, payment_red_flags, text.payment, "critical")
                /\ OneFlagFor(flags, contact_red_flags, text.contact, "warning")
                /\ Cardinality(FlagsWith(flags, "info", MessagesOf(scam_phrases))) = scams
                /\ Of(r, "red_flags").score_impact =
                       (IF text.payment # {} THEN 20 ELSE 0) + (IF text.contact # {} THEN 10 ELSE 0)
                       + 3 * scams + (IF text.email THEN 5 ELSE 0)
                       + (IF LocationMismatch(req[r]) THEN 10 ELSE 0)

\* the text holds two payment patterns, two contact patterns, two scam phrases
\* and an e-mail address, the locations differ, and the agent has returned 51
C26_Witness ==
    \E r \in Reqs :
        /\ pc[Agent(r, "red_flags")] = "done"
        /\ Cardinality(TextOf(req[r]).payment) >= 2 /\ Cardinality(TextOf(req[r]).contact) >= 2
        /\ Cardinality(TextOf(req[r]).scam) = 2 /\ TextOf(req[r]).email
        /\ LocationMismatch(req[r])
        /\ Of(r, "red_flags").score_impact = 51

\* what the badges, the ratings and the stars of the seller take off
Credits(r) ==
    LET seller == req[r].seller
    IN  SumSeq([i \in DOMAIN seller.badges |-> -BadgeCheck(seller.badges[i]).impact])
        + (IF seller.ratings_count >= 10 THEN 10 ELSE 0)
        + (IF seller.ratings_average >= 45 THEN 10 ELSE 0)
\* C27: the score_impact seller_trust_agent returns is never below -30,
\* whatever credits (age, listings, followers, ratings, badges, strengths) fire
C27_TrustFloor ==
    \A r \in Reqs :
        pc[Agent(r, "seller_trust")] = "done" => Of(r, "seller_trust").score_impact >= -30

\* a seller with no join date whose badges, ratings and stars are worth more
\* than 40 points of credit has been given exactly -30
C27_Witness ==
    \E r \in Reqs :
        /\ pc[Agent(r, "seller_trust")] = "done"
        /\ req[r].seller.tag = "ok" /\ req[r].seller.join_year = 0
        /\ Credits(r) > 40
        /\ Of(r, "seller_trust").score_impact = -30

\* the phase-1 impact of agent a in the answered request r
ImpactOf(r, a) == Of(r, a).score_impact
Phase1Sum(r) == SumSeq(Phase1Impacts(r))
Listed(r) == req[r].profile = "marketplace" /\ resp[r].status = "ok"

Arrived(r) == req[r] # NoReq
Responded(r) == resp[r].status # "none"
OthersOf(r, a) == {Agent(r, b) : b \in Range(GenericAgents) \ {a}}

\* under FairSpec: once every call is answered every request is answered
EveryRequestResponds == \A r \in Reqs : Arrived(r) ~> Responded(r)

\* under HungGuardSpec: the reviews and the price comparison of a page settle
\* though the provider call of its guard is never answered
OthersSettleOnHungGuard ==
    \A r \in Reqs : Arrived(r) ~> (\A t \in OthersOf(r, "guard") : pc[t] = "done")

\* a request is answered only when every agent of it has settled
RespondsAfterAll ==
    \A r \in Reqs : Responded(r) /\ Page(r) => \A a \in Range(GenericAgents) : pc[Agent(r, a)] = "done"

\* C29: when every provider and search call is answered every request is
\* answered; a call that is never answered keeps its own request from being
\* answered while the other agents of that request still settle. Here: the
\* guard and the reviews of a page settle though the product search of its
\* price comparison is never answered
C29_OthersSettle ==
    \A r \in Reqs : Arrived(r) ~> (\A t \in OthersOf(r, "price_comparison") : pc[t] = "done")

\* the vision calls of r1 and r2 have the same input
SameImageCall(r1, r2) ==
    /\ r1 # r2 /\ ImageCalls(r1) /\ ImageCalls(r2)
    /\ ImageKey(req[r1]) = ImageKey(req[r2])

\* the cache is read before the limiter: a call that misses goes for a permit
\* and takes one when one is free, whether or not a call with the same input
\* is in flight
MissTakesPermit(r) ==
    ImageCalls(r) /\ Leaves(ImageTask(r), "ready") /\ ImageKey(req[r]) \notin DOMAIN cache =>
        IF sem > 0 /\ waiters = <<>>
        THEN pc'[ImageTask(r)] = "inflight" /\ sem' = sem - 1
        ELSE pc'[ImageTask(r)] = "waitsem" /\ sem' = sem

\* the cache is written only when a call completes
WrittenOnCompletion ==
    cache' # cache => \E t \in Tasks : Leaves(t, "inflight") /\ pc'[t] = "done"

\* a call that completes with a valid answer stores it, over the entry a call
\* with the same input stored meanwhile
LastCompletionStored(r) ==
    Leaves(ImageTask(r), "inflight") /\ out'[ImageTask(r)].details.ai_analysis.tag = "ok" =>
        /\ ImageKey(req[r]) \in DOMAIN cache'
        /\ AiAnalysis(ValidateJson("ImageAnalysisResult", cache'[ImageKey(req[r])]))
              = out'[ImageTask(r)].details.ai_analysis

\* C30: the cache is read before the limiter is acquired and written only
\* when a call completes, and identical calls are not coalesced: of two
\* identical calls issued before either completes both miss, both take a
\* permit and reach the provider, and the cache ends with the answer of the
\* one that completes last
C30_NoSingleFlight ==
    [][/\ \A r \in Reqs : MissTakesPermit(r) /\ LastCompletionStored(r)
       /\ WrittenOnCompletion]_vars

\* C30, its case: the vision calls of two listings with one screenshot were
\* both in flight, each with a permit; both were answered, differently, and
\* the cache holds one of the two answers
C30_Witness ==
    \E r1, r2 \in Reqs :
        /\ SameImageCall(r1, r2)
        /\ pc[ImageTask(r1)] = "done" /\ pc[ImageTask(r2)] = "done"
        /\ Of(r1, "image_analysis").details.ai_analysis.tag = "ok"
        /\ Of(r2, "image_analysis").details.ai_analysis.tag = "ok"
        /\ Of(r1, "image_analysis").details.ai_analysis # Of(r2, "image_analysis").details.ai_analysis
        /\ AiAnalysis(ValidateJson("ImageAnalysisResult", cache[ImageKey(req[r1])]))
              \in {Of(r1, "image_analysis").details.ai_analysis, Of(r2, "image_analysis").details.ai_analysis}

====
